---- MODULE Spec2Model ----
(***************************************************************************)
(* Script -> Timeline compiler of Shahulog/FirstVideo.                     *)
(*                                                                         *)
(* compile (src/src/compiler/compile.ts) walks the scenes and blocks of a  *)
(* Script, binds every dialogue block to an audio manifest entry           *)
(* (src/src/compiler/rules/dialogue.ts), lays the clips out on an integer  *)
(* frame grid and plans the BGM track (generateBgmTrack).                  *)
(*                                                                         *)
(* Conventions of the model                                                *)
(*   - seconds are exact hundredths of a second (integers); the values     *)
(*     drawn are ones for which the IEEE product sec * fps is exact or     *)
(*     rounds to the same ceiling;                                         *)
(*   - decibel values are integers;                                        *)
(*   - an optional value (undefined in the source) is the empty sequence,  *)
(*     a present value v is <<v>>;                                         *)
(*   - strings are TLA+ strings; a character is a string of length 1.      *)
(***************************************************************************)
EXTENDS Integers, Sequences, FiniteSets, TLC

VARIABLES
  script,              \* compile's argument: the Script
  options,             \* compile's argument: audioManifest, bgmDurationFrames
  pc,                  \* position of compile
  sceneIdx,            \* index (1-based) of the scene of the for-of loop
  sceneStartFrame,     \* compile.ts:70
  blockIndex,          \* compile.ts:71
  globalBlockIndex,    \* compile.ts:65
  currentFrame,        \* compile.ts:64, the frame cursor
  audioTrack,          \* clips of the audio track
  subtitleTrack,       \* clips of the subtitle track
  characterTrack,      \* clips of the character track
  assets,              \* TimelineAssets: audio (a map), bgm (optional map)
  sceneTimings,        \* compile.ts:66
  warnings,            \* console.warn calls, in order
  bgm,                 \* locals of generateBgmTrack
  timeline,            \* the Timeline returned (optional)
  render               \* BgmTrack rendering one clip (optional)

vars == <<script, options, pc, sceneIdx, sceneStartFrame, blockIndex,
          globalBlockIndex, currentFrame, audioTrack, subtitleTrack,
          characterTrack, assets, sceneTimings, warnings, bgm, timeline,
          render>>

-----------------------------------------------------------------------------
(* Optional values and maps *)

None == <<>>
Some(v) == <<v>>
IsSome(o) == o # <<>>
\* the ?? operator
OrElse(o, d) == IF o = <<>> THEN d ELSE o[1]

\* the element of a one-element set; a value bound over {v} is computed once
TheOne(S) == CHOOSE x \in S : TRUE

EmptyMap == [k \in {} |-> 0]
\* obj[key] = value
MapPut(m, k, v) == [x \in (DOMAIN m) \cup {k} |-> IF x = k THEN v ELSE m[x]]
\* obj[key], undefined when absent
MapGet(m, k) == IF k \in DOMAIN m THEN Some(m[k]) ELSE None

Max(a, b) == IF a >= b THEN a ELSE b
Min(a, b) == IF a <= b THEN a ELSE b

-----------------------------------------------------------------------------
(* domain/time and string helpers *)

\* Math.ceil(n / d) for d > 0
CeilDiv(n, d) == -((-n) \div d)

\* secToFrames: Math.ceil(sec * fps); sec is in hundredths of a second
secToFrames(sec, fps) == CeilDiv(sec * fps, 100)

\* String.prototype.includes
Includes(s, sub) ==
  \E i \in 1..(Len(s) - Len(sub) + 1) : SubSeq(s, i, i + Len(sub) - 1) = sub

RECURSIVE Zeros(_)
Zeros(n) == IF n <= 0 THEN "" ELSE "0" \o Zeros(n - 1)

\* String(n).padStart(width, "0")
ZeroPad(n, width) == Zeros(width - Len(ToString(n))) \o ToString(n)

-----------------------------------------------------------------------------
(* rules/dialogue.ts *)

generateAudioKey(sceneId, blockIdx) == sceneId \o ":" \o ToString(blockIdx)

\* Array.prototype.find: the first of the indices whose element satisfies
\* the predicate (hits), 0 for undefined
FirstIndex(hits) ==
  IF hits = {} THEN 0 ELSE CHOOSE i \in hits : \A j \in hits : i <= j

\* a predicate that looks at the entry's fileName only
MatchesFileNameExactly(item, fileName) == item.fileName = Some(fileName)

\* the predicate of the find of step 1: audioSrc includes fileName, or the
\* entry's legacy fileName equals it
MatchesFileName(item, fileName) ==
  \/ Includes(item.audioSrc, fileName)
  \/ item.fileName = Some(fileName)

\* a binding that, unlike the source, falls back on the text of the entries
findAudioInManifestByText(block, audioManifest, expectedAudioKey) ==
  LET byFile == IF IsSome(block.fileName) /\ block.fileName[1] # ""
                THEN FirstIndex({i \in 1..Len(audioManifest) :
                                  MatchesFileName(audioManifest[i], block.fileName[1])})
                ELSE 0
      audioKey == OrElse(block.audioKey, expectedAudioKey)
      byKey == FirstIndex({i \in 1..Len(audioManifest) :
                              audioManifest[i].audioKey = audioKey})
      byText == FirstIndex({i \in 1..Len(audioManifest) :
                               audioManifest[i].text = block.text})
  IN  IF byFile # 0 THEN Some(audioManifest[byFile])
      ELSE IF byKey # 0 THEN Some(audioManifest[byKey])
      ELSE IF byText # 0 THEN Some(audioManifest[byText])
      ELSE None

\* findAudioInManifest: 1) fileName, 2) audioKey, 3) undefined
findAudioInManifest(block, audioManifest, expectedAudioKey) ==
  LET byFile == IF IsSome(block.fileName) /\ block.fileName[1] # ""
                THEN FirstIndex({i \in 1..Len(audioManifest) :
                                  MatchesFileName(audioManifest[i], block.fileName[1])})
                ELSE 0
      audioKey == OrElse(block.audioKey, expectedAudioKey)
      byKey == FirstIndex({i \in 1..Len(audioManifest) :
                              audioManifest[i].audioKey = audioKey})
  IN  IF byFile # 0 THEN Some(audioManifest[byFile])
      ELSE IF byKey # 0 THEN Some(audioManifest[byKey])
      ELSE None

\* a binding that, unlike the source, falls back on the position in the manifest
BindBlockPositional(block, ctx) ==
  LET byRule == findAudioInManifest(block, ctx.audioManifest,
                                    generateAudioKey(ctx.scene.id, ctx.blockIndex))
  IN  IF IsSome(byRule) THEN byRule
      ELSE IF ctx.globalBlockIndex + 1 <= Len(ctx.audioManifest)
           THEN Some(ctx.audioManifest[ctx.globalBlockIndex + 1])
           ELSE None

\* dialogue.ts:107-111: the manifest entry a block is bound to
BindBlock(block, ctx) ==
  findAudioInManifest(block, ctx.audioManifest,
                      generateAudioKey(ctx.scene.id, ctx.blockIndex))

\* a fallback of one second, unlike the source's two
VoiceOfFallbackOneSecond(manifestItem, fps, globalIdx) ==
  IF IsSome(manifestItem) /\ manifestItem[1].durationInSeconds > 0
  THEN [durationFrames |-> secToFrames(manifestItem[1].durationInSeconds, fps),
        audioSrc |-> manifestItem[1].audioSrc,
        fallback |-> FALSE]
  ELSE [durationFrames |-> fps,
        audioSrc |-> "audio/" \o ZeroPad(globalIdx + 1, 3) \o ".wav",
        fallback |-> TRUE]

\* dialogue.ts:113-127: the voice duration and source of a block, from its
\* bound manifest entry or from the fallback
VoiceOf(manifestItem, fps, globalIdx) ==
  IF IsSome(manifestItem) /\ manifestItem[1].durationInSeconds > 0
  THEN [durationFrames |-> secToFrames(manifestItem[1].durationInSeconds, fps),
        audioSrc |-> manifestItem[1].audioSrc,
        fallback |-> FALSE]
  ELSE [durationFrames |-> fps * 2,
        audioSrc |-> "audio/" \o ZeroPad(globalIdx + 1, 3) \o ".wav",
        fallback |-> TRUE]

\* pauseSec || defaultPauseSec, unlike the source's ??
PauseFramesOfTruthy(block, video) ==
  secToFrames(IF IsSome(block.pauseSec) /\ block.pauseSec[1] # 0
              THEN block.pauseSec[1] ELSE video.defaultPauseSec, video.fps)

\* dialogue.ts:129-131
PauseFramesOf(block, video) ==
  secToFrames(OrElse(block.pauseSec, video.defaultPauseSec), video.fps)

\* the voice alone, unlike the source
TotalDurationFramesNoPause(durationFrames, pauseFrames) == durationFrames

\* dialogue.ts:133-134
TotalDurationFrames(durationFrames, pauseFrames) == durationFrames + pauseFrames

\* an id from the index within the scene, unlike the source
AudioAssetIdLocal(ctx) == "audio_" \o ZeroPad(ctx.blockIndex + 1, 3)

\* dialogue.ts:136-137
AudioAssetId(ctx) == "audio_" \o ZeroPad(ctx.globalBlockIndex + 1, 3)

\* a subtitle over the voice alone, unlike the source
SubtitleClipVoiceOnly(block, ctx, durationFrames, totalDurationFrames) ==
  [start |-> ctx.currentFrame, duration |-> durationFrames, text |-> block.text]

\* dialogue.ts:152-157
SubtitleClip(block, ctx, durationFrames, totalDurationFrames) ==
  [start |-> ctx.currentFrame, duration |-> totalDurationFrames, text |-> block.text]

\* processDialogueBlock
processDialogueBlock(block, ctx) ==
  LET video == ctx.script.video
      fps == video.fps
      speakerWarn == IF block.speaker \in ctx.script.cast
                     THEN <<>> ELSE <<"speaker-not-in-cast">>
      manifestItem == BindBlock(block, ctx)
      voice == VoiceOf(manifestItem, fps, ctx.globalBlockIndex)
      durationFrames == voice.durationFrames
      pauseFrames == PauseFramesOf(block, video)
      totalDurationFrames == TotalDurationFrames(durationFrames, pauseFrames)
      audioAssetId == AudioAssetId(ctx)
      talkClip == [start |-> ctx.currentFrame, duration |-> durationFrames,
                   characterId |-> block.speaker, state |-> [isTalking |-> TRUE]]
      idleClip == [start |-> ctx.currentFrame + durationFrames,
                   duration |-> pauseFrames,
                   characterId |-> block.speaker, state |-> [isTalking |-> FALSE]]
  IN  [threw |-> FALSE,
       skipped |-> FALSE,
       audioAssetId |-> audioAssetId,
       audioAsset |-> [src |-> voice.audioSrc, durationFrames |-> durationFrames],
       audioClip |-> [assetId |-> audioAssetId, start |-> ctx.currentFrame,
                      duration |-> durationFrames],
       subtitleClip |-> SubtitleClip(block, ctx, durationFrames, totalDurationFrames),
       characterClips |-> IF pauseFrames > 0 THEN <<talkClip, idleClip>>
                          ELSE <<talkClip>>,
       totalDurationFrames |-> totalDurationFrames,
       warnings |-> speakerWarn \o
                    (IF voice.fallback THEN <<"audio-not-found">> ELSE <<>>)]

-----------------------------------------------------------------------------
(* presets/bgm.ts *)

DEFAULT_BASE_DB == -12
DEFAULT_MAX_GAIN_DB == -3
DEFAULT_IDLE_BOOST_DB == 3
DEFAULT_DUCK_DELTA_DB == -8
DEFAULT_ATTACK_SEC == 10
DEFAULT_RELEASE_SEC == 25
DEFAULT_MERGE_GAP_SEC == 35
DEFAULT_MIN_HOLD_SEC == 60
DEFAULT_LOOP_CROSSFADE_SEC == 25
DEFAULT_FADE_IN_SEC == 100
DEFAULT_FADE_OUT_SEC == 100
DEFAULT_TRANSITION_SEC == 100

\* a Partial<...> with every field undefined
NoDucking ==
  [enabled |-> None, duckDeltaDb |-> None, attackSec |-> None,
   releaseSec |-> None, mergeGapSec |-> None, minHoldSec |-> None]

NoFields ==
  [volumeDb |-> None, maxGainDb |-> None, fadeInSec |-> None,
   fadeOutSec |-> None, loop |-> None, loopStartSec |-> None,
   loopEndSec |-> None, loopCrossfadeSec |-> None, idleBoostDb |-> None,
   ducking |-> None]

\* BGM_PRESETS
BGM_PRESETS ==
  [talk |-> [NoFields EXCEPT
       !.volumeDb = Some(DEFAULT_BASE_DB),
       !.maxGainDb = Some(DEFAULT_MAX_GAIN_DB),
       !.idleBoostDb = Some(DEFAULT_IDLE_BOOST_DB),
       !.ducking = Some([enabled |-> Some(TRUE),
                         duckDeltaDb |-> Some(DEFAULT_DUCK_DELTA_DB),
                         attackSec |-> Some(DEFAULT_ATTACK_SEC),
                         releaseSec |-> Some(DEFAULT_RELEASE_SEC),
                         mergeGapSec |-> Some(DEFAULT_MERGE_GAP_SEC),
                         minHoldSec |-> Some(DEFAULT_MIN_HOLD_SEC)])],
   calm |-> [NoFields EXCEPT
       !.volumeDb = Some(-16),
       !.maxGainDb = Some(-6),
       !.idleBoostDb = Some(2),
       !.ducking = Some([enabled |-> Some(TRUE), duckDeltaDb |-> Some(-6),
                         attackSec |-> Some(15), releaseSec |-> Some(35),
                         mergeGapSec |-> Some(50), minHoldSec |-> Some(80)])],
   hype |-> [NoFields EXCEPT
       !.volumeDb = Some(-10),
       !.maxGainDb = Some(-2),
       !.idleBoostDb = Some(4),
       !.ducking = Some([enabled |-> Some(TRUE), duckDeltaDb |-> Some(-10),
                         attackSec |-> Some(8), releaseSec |-> Some(18),
                         mergeGapSec |-> Some(25), minHoldSec |-> Some(40)])],
   none |-> [NoFields EXCEPT
       !.volumeDb = Some(-60),
       !.idleBoostDb = Some(0),
       !.ducking = Some([NoDucking EXCEPT !.enabled = Some(FALSE),
                                          !.duckDeltaDb = Some(0)])]]

getDefaultBgmConfig ==
  [volumeDb |-> DEFAULT_BASE_DB,
   maxGainDb |-> DEFAULT_MAX_GAIN_DB,
   fadeInSec |-> DEFAULT_FADE_IN_SEC,
   fadeOutSec |-> DEFAULT_FADE_OUT_SEC,
   loop |-> TRUE,
   loopStartSec |-> None,
   loopEndSec |-> None,
   loopCrossfadeSec |-> DEFAULT_LOOP_CROSSFADE_SEC,
   idleBoostDb |-> DEFAULT_IDLE_BOOST_DB,
   ducking |-> [enabled |-> TRUE,
                duckDeltaDb |-> DEFAULT_DUCK_DELTA_DB,
                attackSec |-> DEFAULT_ATTACK_SEC,
                releaseSec |-> DEFAULT_RELEASE_SEC,
                mergeGapSec |-> DEFAULT_MERGE_GAP_SEC,
                minHoldSec |-> DEFAULT_MIN_HOLD_SEC]]

\* deepMerge on the ducking object: an undefined override field is skipped
deepMergeDucking(base, override) ==
  TheOne({
    [enabled |-> OrElse(o.enabled, b.enabled),
     duckDeltaDb |-> OrElse(o.duckDeltaDb, b.duckDeltaDb),
     attackSec |-> OrElse(o.attackSec, b.attackSec),
     releaseSec |-> OrElse(o.releaseSec, b.releaseSec),
     mergeGapSec |-> OrElse(o.mergeGapSec, b.mergeGapSec),
     minHoldSec |-> OrElse(o.minHoldSec, b.minHoldSec)]
    : b \in {base}, o \in {override}})

\* deepMerge on the config: an undefined override field is skipped, the
\* nested ducking object is merged recursively
deepMerge(base, override) ==
  TheOne({
    [volumeDb |-> OrElse(o.volumeDb, b.volumeDb),
     maxGainDb |-> OrElse(o.maxGainDb, b.maxGainDb),
     fadeInSec |-> OrElse(o.fadeInSec, b.fadeInSec),
     fadeOutSec |-> OrElse(o.fadeOutSec, b.fadeOutSec),
     loop |-> OrElse(o.loop, b.loop),
     loopStartSec |-> IF IsSome(o.loopStartSec)
                      THEN o.loopStartSec ELSE b.loopStartSec,
     loopEndSec |-> IF IsSome(o.loopEndSec)
                    THEN o.loopEndSec ELSE b.loopEndSec,
     loopCrossfadeSec |-> OrElse(o.loopCrossfadeSec, b.loopCrossfadeSec),
     idleBoostDb |-> OrElse(o.idleBoostDb, b.idleBoostDb),
     ducking |-> IF IsSome(o.ducking)
                 THEN deepMergeDucking(b.ducking, o.ducking[1])
                 ELSE b.ducking]
    : b \in {base}, o \in {override}})

\* bgm.ts:238-245 and 265-272: the explicit ducking fields of a BgmConfig
DuckingPartial(d) ==
  [enabled |-> d.enabled, duckDeltaDb |-> d.duckDeltaDb,
   attackSec |-> d.attackSec, releaseSec |-> d.releaseSec,
   mergeGapSec |-> d.mergeGapSec, minHoldSec |-> d.minHoldSec]

\* bgm.ts:221-232: volumeDb is written as undefined when volume is given
VideoBgmPartial(videoBgm) ==
  [NoFields EXCEPT
     !.volumeDb = IF IsSome(videoBgm.volume) THEN None ELSE videoBgm.volumeDb,
     !.maxGainDb = videoBgm.maxGainDb,
     !.fadeInSec = videoBgm.fadeInSec,
     !.fadeOutSec = videoBgm.fadeOutSec,
     !.loop = videoBgm.loop,
     !.loopStartSec = videoBgm.loopStartSec,
     !.loopEndSec = videoBgm.loopEndSec,
     !.loopCrossfadeSec = videoBgm.loopCrossfadeSec,
     !.idleBoostDb = videoBgm.idleBoostDb]

\* bgm.ts:251-261
ScenePartial(sceneOverride) ==
  [NoFields EXCEPT
     !.volumeDb = sceneOverride.volumeDb,
     !.maxGainDb = sceneOverride.maxGainDb,
     !.fadeInSec = sceneOverride.fadeInSec,
     !.fadeOutSec = sceneOverride.fadeOutSec,
     !.loop = sceneOverride.loop,
     !.loopStartSec = sceneOverride.loopStartSec,
     !.loopEndSec = sceneOverride.loopEndSec,
     !.loopCrossfadeSec = sceneOverride.loopCrossfadeSec,
     !.idleBoostDb = sceneOverride.idleBoostDb]

\* resolveBgmConfig(videoBgm, sceneOverride?); sceneOverride is optional
resolveBgmConfig(videoBgm, sceneOverride) ==
  LET presetName == IF IsSome(sceneOverride) /\ IsSome(sceneOverride[1].preset)
                    THEN sceneOverride[1].preset ELSE videoBgm.preset
      c0 == getDefaultBgmConfig
      c1 == IF IsSome(presetName) /\ presetName[1] \in DOMAIN BGM_PRESETS
            THEN deepMerge(c0, BGM_PRESETS[presetName[1]]) ELSE c0
      c2 == deepMerge(c1, VideoBgmPartial(videoBgm))
      c3 == IF IsSome(videoBgm.ducking)
            THEN [c2 EXCEPT !.ducking =
                    deepMergeDucking(c2.ducking, DuckingPartial(videoBgm.ducking[1]))]
            ELSE c2
      c4 == IF IsSome(sceneOverride)
            THEN deepMerge(c3, ScenePartial(sceneOverride[1])) ELSE c3
      c5 == IF IsSome(sceneOverride) /\ IsSome(sceneOverride[1].ducking)
            THEN [c4 EXCEPT !.ducking =
                    deepMergeDucking(c4.ducking,
                                     DuckingPartial(sceneOverride[1].ducking[1]))]
            ELSE c4
      src == IF IsSome(sceneOverride) /\ IsSome(sceneOverride[1].src)
             THEN sceneOverride[1].src[1] ELSE videoBgm.src
  IN  TheOne({
        [src |-> src,
         volumeDb |-> c.volumeDb,
         maxGainDb |-> c.maxGainDb,
         fadeInSec |-> c.fadeInSec,
         fadeOutSec |-> c.fadeOutSec,
         loop |-> c.loop,
         loopStartSec |-> c.loopStartSec,
         loopEndSec |-> c.loopEndSec,
         loopCrossfadeSec |-> c.loopCrossfadeSec,
         idleBoostDb |-> c.idleBoostDb,
         ducking |-> c.ducking]
        : c \in {c5}})

\* String.prototype.charCodeAt for the characters '-' .. 'Z' and 'a' .. 'z'
CharsFrom45 == "-./0123456789:;<=>?@ABCDEFGHIJKLMNOPQRSTUVWXYZ"
CharsFrom97 == "abcdefghijklmnopqrstuvwxyz"
IndexIn(str, ch) == CHOOSE i \in 1..Len(str) : SubSeq(str, i, i) = ch
CharCode(ch) ==
  IF Includes(CharsFrom97, ch) THEN 96 + IndexIn(CharsFrom97, ch)
  ELSE 44 + IndexIn(CharsFrom45, ch)

\* A 32-bit integer is kept as its two 16-bit halves [hi, lo].
\* hash = ((hash << 5) - hash) + char; hash = hash & hash
HashStep(h, code) ==
  TheOne({TheOne({[lo |-> lo31 % 65536,
                   hi |-> (g.hi * 31 + (lo31 \div 65536)) % 65536]
                  : lo31 \in {g.lo * 31 + code}})
          : g \in {h}})

RECURSIVE HashFrom(_, _, _)
HashFrom(src, i, h) ==
  IF i > Len(src) THEN h
  ELSE HashFrom(src, i + 1, HashStep(h, CharCode(SubSeq(src, i, i))))

\* Math.abs of the int32 [hi, lo], again as halves (2^31 for -2^31)
Abs32(h) ==
  IF h.hi < 32768 THEN h
  ELSE [lo |-> (65536 - h.lo) % 65536,
        hi |-> (65536 - h.hi - (IF h.lo = 0 THEN 0 ELSE 1)) % 65536]

HexDigits == "0123456789abcdef"
RECURSIVE Hex(_)
Hex(n) ==
  IF n < 16 THEN SubSeq(HexDigits, n + 1, n + 1)
  ELSE Hex(n \div 16) \o SubSeq(HexDigits, (n % 16) + 1, (n % 16) + 1)

\* Number.prototype.toString(16) of hi * 2^16 + lo
ToString16(h) ==
  IF h.hi = 0 THEN Hex(h.lo)
  ELSE Hex(h.hi) \o Zeros(4 - Len(Hex(h.lo))) \o Hex(h.lo)

generateBgmAssetId(src) ==
  "bgm_" \o ToString16(Abs32(HashFrom(src, 1, [hi |-> 0, lo |-> 0])))

-----------------------------------------------------------------------------
(* compile.ts: the BGM track planner *)

\* a key that leaves out the fades
serializeConfigWithoutFades(config) ==
  [src |-> config.src,
   volumeDb |-> config.volumeDb,
   maxGainDb |-> config.maxGainDb,
   loop |-> config.loop,
   loopStartSec |-> config.loopStartSec,
   loopEndSec |-> config.loopEndSec,
   loopCrossfadeSec |-> config.loopCrossfadeSec,
   idleBoostDb |-> config.idleBoostDb,
   ducking |-> config.ducking]

\* serializeConfig: JSON.stringify of the listed fields.  Two configs
\* serialize to the same string exactly when these fields agree, so the
\* string is kept as the record of the fields.
serializeConfig(config) ==
  [src |-> config.src,
   volumeDb |-> config.volumeDb,
   maxGainDb |-> config.maxGainDb,
   fadeInSec |-> config.fadeInSec,
   fadeOutSec |-> config.fadeOutSec,
   loop |-> config.loop,
   loopStartSec |-> config.loopStartSec,
   loopEndSec |-> config.loopEndSec,
   loopCrossfadeSec |-> config.loopCrossfadeSec,
   idleBoostDb |-> config.idleBoostDb,
   ducking |-> config.ducking]

\* wrapPlaybackPosition; audioDuration, loopStartFrames, loopEndFrames optional
wrapPlaybackPosition(currentPos, audioDuration, loopStartFrames, loopEndFrames, loop) ==
  IF ~IsSome(audioDuration) \/ audioDuration[1] <= 0 THEN currentPos
  ELSE IF ~loop THEN Min(currentPos, audioDuration[1])
  ELSE LET loopStart == OrElse(loopStartFrames, 0)
           loopEnd == OrElse(loopEndFrames, audioDuration[1])
           loopLength == loopEnd - loopStart
       IN  IF loopLength <= 0 \/ loopStart < 0 \/ loopEnd > audioDuration[1]
           THEN currentPos % audioDuration[1]
           ELSE IF currentPos < loopStart THEN currentPos
           ELSE loopStart + ((currentPos - loopStart) % loopLength)

\* getPlaybackPosition (closure of generateBgmTrack)
getPlaybackPosition(playbackPosByAsset, bgmDurationFrames, assetId, config, fps) ==
  wrapPlaybackPosition(
    OrElse(MapGet(playbackPosByAsset, assetId), 0),
    MapGet(bgmDurationFrames, assetId),
    IF IsSome(config.loopStartSec)
      THEN Some(secToFrames(config.loopStartSec[1], fps)) ELSE None,
    IF IsSome(config.loopEndSec)
      THEN Some(secToFrames(config.loopEndSec[1], fps)) ELSE None,
    config.loop)

\* a position that restarts with every clip, unlike the source's sum
advancePlaybackPositionOfRun(playbackPosByAsset, assetId, frames) ==
  MapPut(playbackPosByAsset, assetId, frames)

\* advancePlaybackPosition (closure of generateBgmTrack)
advancePlaybackPosition(playbackPosByAsset, assetId, frames) ==
  MapPut(playbackPosByAsset, assetId,
         OrElse(MapGet(playbackPosByAsset, assetId), 0) + frames)

\* options that never name the last clip
ClipOptionsNeverLast(isFirstClip, isLastClip) ==
  [isFirstClip |-> isFirstClip, isLastClip |-> FALSE,
   transitionInFrames |-> None, transitionOutFrames |-> None,
   audioOffsetFrames |-> None]

\* the options argument of createBgmClip with nothing optional given
ClipOptions(isFirstClip, isLastClip) ==
  [isFirstClip |-> isFirstClip, isLastClip |-> isLastClip,
   transitionInFrames |-> None, transitionOutFrames |-> None,
   audioOffsetFrames |-> None]

\* createBgmClip
createBgmClip(assetId, start, duration, config, fps, opts) ==
  [assetId |-> assetId,
   start |-> start,
   duration |-> duration,
   audioOffsetFrames |->
     IF IsSome(opts.audioOffsetFrames) /\ opts.audioOffsetFrames[1] > 0
     THEN opts.audioOffsetFrames ELSE None,
   volumeDb |-> config.volumeDb,
   maxGainDb |-> config.maxGainDb,
   fadeInFrames |-> IF opts.isFirstClip
                    THEN Max(1, secToFrames(config.fadeInSec, fps)) ELSE 1,
   fadeOutFrames |-> IF opts.isLastClip
                     THEN Max(1, secToFrames(config.fadeOutSec, fps)) ELSE 1,
   loop |-> config.loop,
   idleBoostDb |-> config.idleBoostDb,
   loopStartFrames |-> IF IsSome(config.loopStartSec)
                       THEN Some(secToFrames(config.loopStartSec[1], fps)) ELSE None,
   loopEndFrames |-> IF IsSome(config.loopEndSec)
                     THEN Some(secToFrames(config.loopEndSec[1], fps)) ELSE None,
   loopCrossfadeFrames |-> IF config.loopCrossfadeSec > 0
                           THEN Some(secToFrames(config.loopCrossfadeSec, fps))
                           ELSE None,
   ducking |-> [enabled |-> config.ducking.enabled,
                duckDeltaDb |-> Some(config.ducking.duckDeltaDb),
                attackFrames |-> Max(1, secToFrames(config.ducking.attackSec, fps)),
                releaseFrames |-> Max(1, secToFrames(config.ducking.releaseSec, fps)),
                mergeGapFrames |-> secToFrames(config.ducking.mergeGapSec, fps),
                minHoldFrames |-> secToFrames(config.ducking.minHoldSec, fps)],
   transitionInFrames |-> opts.transitionInFrames,
   transitionOutFrames |-> opts.transitionOutFrames]

\* bgmAssets[assetId] = { src, durationFrames? } unless already present
AddBgmAsset(bgmAssets, assetId, src, bgmDurationFrames) ==
  IF assetId \in DOMAIN bgmAssets THEN bgmAssets
  ELSE MapPut(bgmAssets, assetId,
              [src |-> src, durationFrames |-> MapGet(bgmDurationFrames, assetId)])

\* the locals of generateBgmTrack before its loop
BgmInit ==
  [bgmAssets |-> EmptyMap,
   bgmClips |-> <<>>,
   playbackPosByAsset |-> EmptyMap,
   currentClip |-> None,
   currentConfig |-> None,
   currentConfigStr |-> None,
   currentAssetId |-> "",
   i |-> 0]

\* generateBgmTrack, sceneTimings.length === 0: one clip over the timeline
BgmNoScenes(b, videoBgm, totalFrames, fps, bgmDurationFrames) ==
  LET config == resolveBgmConfig(videoBgm, None)
      assetId == generateBgmAssetId(config.src)
      clip == createBgmClip(assetId, 0, totalFrames, config, fps,
                [ClipOptions(TRUE, TRUE) EXCEPT !.audioOffsetFrames = Some(0)])
  IN  [b EXCEPT
         !.bgmAssets = MapPut(EmptyMap, assetId,
                              [src |-> config.src,
                               durationFrames |-> MapGet(bgmDurationFrames, assetId)]),
         !.bgmClips = <<clip>>]

\* generateBgmTrack: the body of the loop over sceneTimings, for index b.i,
\* from line 311 on
\* a transition length that may be no frame at all
transitionFramesUnclamped(sceneOverride, fps) ==
  secToFrames(IF IsSome(sceneOverride)
              THEN OrElse(sceneOverride[1].transitionSec, DEFAULT_TRANSITION_SEC)
              ELSE DEFAULT_TRANSITION_SEC, fps)

\* compile.ts:329-330: transitionSec and transitionFrames of a source change
transitionFrames(sceneOverride, fps) ==
  LET transitionSec ==
        IF IsSome(sceneOverride)
        THEN OrElse(sceneOverride[1].transitionSec, DEFAULT_TRANSITION_SEC)
        ELSE DEFAULT_TRANSITION_SEC
  IN  Max(1, secToFrames(transitionSec, fps))

BgmSceneWith(b, timings, fps, bgmDurationFrames, sceneOverride, config, assetId) ==
  LET timing == timings[b.i + 1]
      startFrame == timing.startFrame
      endFrame == timing.endFrame
      isFirstScene == b.i = 0
      isLastScene == b.i = Len(timings) - 1
      configStr == Some(serializeConfig(config))
      bgmAssets == AddBgmAsset(b.bgmAssets, assetId, config.src, bgmDurationFrames)
      configChanged == b.currentConfigStr # configStr
      srcChanged == b.currentAssetId # "" /\ b.currentAssetId # assetId
      opened(clip) == [b EXCEPT !.bgmAssets = bgmAssets,
                                !.currentClip = Some(clip),
                                !.currentConfig = Some(config),
                                !.currentConfigStr = configStr,
                                !.currentAssetId = assetId,
                                !.i = b.i + 1]
  IN
  IF isFirstScene \/ configChanged THEN
    IF IsSome(b.currentClip) THEN
      LET cur == b.currentClip[1]
          prevClipDuration == startFrame - cur.start
      IN
      IF srcChanged THEN
        LET closed == [cur EXCEPT
                         !.duration = startFrame + transitionFrames(sceneOverride, fps)
                                        - cur.start,
                         !.transitionOutFrames =
                            Some(transitionFrames(sceneOverride, fps))]
            next == createBgmClip(assetId, startFrame, endFrame - startFrame,
                      config, fps,
                      [ClipOptions(FALSE, isLastScene) EXCEPT
                         !.transitionInFrames =
                            Some(transitionFrames(sceneOverride, fps)),
                         !.audioOffsetFrames = Some(0)])
        IN  [opened(next) EXCEPT
               !.playbackPosByAsset =
                  advancePlaybackPosition(b.playbackPosByAsset, b.currentAssetId,
                                          closed.duration),
               !.bgmClips = Append(b.bgmClips, closed)]
      ELSE
        LET closed == [cur EXCEPT !.duration = prevClipDuration]
            pos == advancePlaybackPosition(b.playbackPosByAsset, b.currentAssetId,
                                           prevClipDuration)
            audioOffset == getPlaybackPosition(pos, bgmDurationFrames, assetId,
                                               config, fps)
            next == createBgmClip(assetId, startFrame, endFrame - startFrame,
                      config, fps,
                      [ClipOptions(FALSE, isLastScene) EXCEPT
                         !.audioOffsetFrames = Some(audioOffset)])
        IN  [opened(next) EXCEPT
               !.playbackPosByAsset = pos,
               !.bgmClips = Append(b.bgmClips, closed)]
    ELSE
      opened(createBgmClip(assetId, startFrame, endFrame - startFrame, config, fps,
               [ClipOptions(TRUE, isLastScene) EXCEPT !.audioOffsetFrames = Some(0)]))
  ELSE
    [b EXCEPT
       !.bgmAssets = bgmAssets,
       !.i = b.i + 1,
       !.currentClip =
          IF IsSome(b.currentClip)
          THEN LET cur == b.currentClip[1]
               IN  Some([cur EXCEPT
                      !.duration = endFrame - cur.start,
                      !.fadeOutFrames =
                         IF isLastScene
                         THEN Max(1, secToFrames(b.currentConfig[1].fadeOutSec, fps))
                         ELSE cur.fadeOutFrames])
          ELSE b.currentClip]

\* compile.ts:300-309: the scene override, the resolved config and the asset
\* id of scene b.i, each computed once, then the rest of the loop body
BgmScene(b, videoBgm, timings, fps, bgmDurationFrames) ==
  TheOne({
    TheOne({
      TheOne({BgmSceneWith(b, timings, fps, bgmDurationFrames,
                           sceneOverride, config, assetId)
              : assetId \in {generateBgmAssetId(config.src)}})
      : config \in {resolveBgmConfig(videoBgm, sceneOverride)}})
    : sceneOverride \in {IF IsSome(timings[b.i + 1].scene.style)
                         THEN timings[b.i + 1].scene.style[1].bgm ELSE None}})

\* generateBgmTrack after the loop: push the clip still open
BgmPushFinal(b) ==
  IF IsSome(b.currentClip)
  THEN [b EXCEPT
          !.playbackPosByAsset =
             advancePlaybackPosition(b.playbackPosByAsset, b.currentAssetId,
                                     b.currentClip[1].duration),
          !.bgmClips = Append(b.bgmClips, b.currentClip[1])]
  ELSE b

-----------------------------------------------------------------------------
(* compile.ts: compile *)

\* a switch whose default branch returns nothing, unlike the source
processBlockSkipsUnknown(block, ctx) ==
  IF block.type = "dialogue" THEN processDialogueBlock(block, ctx)
  ELSE [threw |-> FALSE, skipped |-> TRUE]

\* processBlock: the switch on block.type; the default branch throws
processBlock(block, ctx) ==
  IF block.type = "dialogue" THEN processDialogueBlock(block, ctx)
  ELSE [threw |-> TRUE, skipped |-> FALSE]

\* the locals of compile, as one record
Locals ==
  [pc |-> pc, sceneIdx |-> sceneIdx, sceneStartFrame |-> sceneStartFrame,
   blockIndex |-> blockIndex, globalBlockIndex |-> globalBlockIndex,
   currentFrame |-> currentFrame, audioTrack |-> audioTrack,
   subtitleTrack |-> subtitleTrack, characterTrack |-> characterTrack,
   assets |-> assets, sceneTimings |-> sceneTimings, warnings |-> warnings,
   bgm |-> bgm, timeline |-> timeline]

\* compile.ts:116-122: where compile goes after the loop over the scenes
AfterScenes(s) == IF IsSome(s.video.bgm) THEN "bgm" ELSE "assemble"

\* compile.ts:52-71: the locals when the first scene (if any) is entered
InitialLocals(s) ==
  [pc |-> IF s.scenes = <<>> THEN AfterScenes(s) ELSE "blocks",
   sceneIdx |-> 1, sceneStartFrame |-> 0,
   blockIndex |-> 0, globalBlockIndex |-> 0,
   currentFrame |-> 0, audioTrack |-> <<>>,
   subtitleTrack |-> <<>>, characterTrack |-> <<>>,
   assets |-> [audio |-> EmptyMap, bgm |-> None],
   sceneTimings |-> <<>>, warnings |-> <<>>,
   bgm |-> BgmInit, timeline |-> None]

\* compile.ts:75-82
Context(L, s, o) ==
  [script |-> s, scene |-> s.scenes[L.sceneIdx],
   audioManifest |-> o.audioManifest, currentFrame |-> L.currentFrame,
   blockIndex |-> L.blockIndex, globalBlockIndex |-> L.globalBlockIndex]

\* compile.ts:74-105: one iteration of the loop over the blocks of a scene
CanProcessBlock(L, s) ==
  /\ L.pc = "blocks"
  /\ L.blockIndex < Len(s.scenes[L.sceneIdx].blocks)

BlockStep(L, s, o) ==
  LET block == s.scenes[L.sceneIdx].blocks[L.blockIndex + 1]
      result == processBlock(block, Context(L, s, o))
  IN  IF result.threw THEN [L EXCEPT !.pc = "threw"]
      ELSE IF result.skipped
           THEN [L EXCEPT !.blockIndex = @ + 1, !.globalBlockIndex = @ + 1]
      ELSE [L EXCEPT
              !.assets.audio = MapPut(@, result.audioAssetId, result.audioAsset),
              !.audioTrack = Append(@, result.audioClip),
              !.subtitleTrack = Append(@, result.subtitleClip),
              !.characterTrack = @ \o result.characterClips,
              !.currentFrame = @ + result.totalDurationFrames,
              !.warnings = @ \o result.warnings,
              !.blockIndex = @ + 1,
              !.globalBlockIndex = @ + 1]

\* compile.ts:107-113, then the head of the next iteration (70-71) or the
\* exit of the loop over the scenes
CanEndScene(L, s) ==
  /\ L.pc = "blocks"
  /\ L.blockIndex = Len(s.scenes[L.sceneIdx].blocks)

SceneEndStep(L, s) ==
  LET scene == s.scenes[L.sceneIdx]
      timing == [sceneId |-> scene.id, startFrame |-> L.sceneStartFrame,
                 endFrame |-> L.currentFrame, scene |-> scene]
  IN  [L EXCEPT
         !.sceneTimings = Append(@, timing),
         !.sceneIdx = @ + 1,
         !.sceneStartFrame = L.currentFrame,
         !.blockIndex = 0,
         !.pc = IF L.sceneIdx < Len(s.scenes) THEN "blocks" ELSE AfterScenes(s)]

\* generateBgmTrack, compile.ts:269-291
CanBgmNoScenes(L) == L.pc = "bgm" /\ Len(L.sceneTimings) = 0

BgmNoScenesStep(L, s, o) ==
  [L EXCEPT
     !.bgm = BgmNoScenes(@, s.video.bgm[1], L.currentFrame, s.video.fps,
                         o.bgmDurationFrames),
     !.pc = "bgmDone"]

\* generateBgmTrack, compile.ts:299-415
CanBgmScene(L) == L.pc = "bgm" /\ L.bgm.i < Len(L.sceneTimings)

BgmSceneStep(L, s, o) ==
  [L EXCEPT !.bgm = BgmScene(@, s.video.bgm[1], L.sceneTimings, s.video.fps,
                             o.bgmDurationFrames)]

\* generateBgmTrack, compile.ts:417-430
CanBgmReturn(L) ==
  L.pc = "bgm" /\ Len(L.sceneTimings) > 0 /\ L.bgm.i = Len(L.sceneTimings)

BgmReturnStep(L) == [L EXCEPT !.bgm = BgmPushFinal(@), !.pc = "bgmDone"]

\* compile.ts:118-153: the tracks, the BGM assets and track, the Timeline
CanAssemble(L) == L.pc \in {"assemble", "bgmDone"}

AssembleStep(L, s) ==
  LET base == << [type |-> "audio", clips |-> L.audioTrack],
                 [type |-> "subtitle", clips |-> L.subtitleTrack],
                 [type |-> "character", clips |-> L.characterTrack] >>
      withBgm == L.pc = "bgmDone"
      tracks == IF withBgm /\ Len(L.bgm.bgmClips) > 0
                THEN Append(base, [type |-> "bgm", clips |-> L.bgm.bgmClips])
                ELSE base
      allAssets == IF withBgm
                   THEN [L.assets EXCEPT !.bgm = Some(L.bgm.bgmAssets)]
                   ELSE L.assets
  IN  [L EXCEPT
         !.assets = allAssets,
         !.timeline = Some([version |-> "0.1",
                            meta |-> [fps |-> s.video.fps,
                                      width |-> s.video.width,
                                      height |-> s.video.height,
                                      totalFrames |-> L.currentFrame],
                            assets |-> allAssets,
                            tracks |-> tracks]),
         !.pc = "returned"]

\* one step of compile from the locals L
CompileStep(L, s, o) ==
  IF CanProcessBlock(L, s) THEN BlockStep(L, s, o)
  ELSE IF CanEndScene(L, s) THEN SceneEndStep(L, s)
  ELSE IF CanBgmNoScenes(L) THEN BgmNoScenesStep(L, s, o)
  ELSE IF CanBgmScene(L) THEN BgmSceneStep(L, s, o)
  ELSE IF CanBgmReturn(L) THEN BgmReturnStep(L)
  ELSE IF CanAssemble(L) THEN AssembleStep(L, s)
  ELSE L

\* compile(script, options): the locals when it has returned or thrown
RECURSIVE RunCompile(_, _, _)
RunCompile(L, s, o) ==
  IF L.pc \in {"returned", "threw"} THEN L
  ELSE RunCompile(CompileStep(L, s, o), s, o)

compile(s, o) == RunCompile(InitialLocals(s), s, o)

-----------------------------------------------------------------------------
(* The schemas: parseScript and parseTimeline accept exactly these *)

\* z.<type>().optional(): the value to validate when the field is present
Present(o) == {o[i] : i \in 1..Len(o)}

IsNonNegative(n) == n \in Int /\ n >= 0
IsPositive(n) == n \in Int /\ n > 0
IsVolumeDb(n) == n \in Int /\ n >= -60 /\ n <= 6
IsIdleBoostDb(n) == n \in Int /\ n >= -60 /\ n <= 12
IsDuckDeltaDb(n) == n \in Int /\ n >= -60 /\ n <= 0
IsBoolean(b) == b \in BOOLEAN

\* bgmDuckingConfigSchema, after the defaults (every field of the scene
\* override's partial() stays optional)
bgmDuckingConfigSchema(d) ==
  /\ \A x \in Present(d.enabled) : IsBoolean(x)
  /\ \A x \in Present(d.duckDeltaDb) : IsDuckDeltaDb(x)
  /\ \A x \in Present(d.attackSec) : IsNonNegative(x)
  /\ \A x \in Present(d.releaseSec) : IsNonNegative(x)
  /\ \A x \in Present(d.mergeGapSec) : IsNonNegative(x)
  /\ \A x \in Present(d.minHoldSec) : IsNonNegative(x)

\* the fields shared by bgmConfigSchema and sceneBgmOverrideSchema
bgmConfigFields(c) ==
  /\ \A p \in Present(c.preset) : p \in {"talk", "calm", "hype", "none"}
  /\ \A x \in Present(c.volumeDb) : IsVolumeDb(x)
  /\ \A x \in Present(c.maxGainDb) : IsVolumeDb(x)
  /\ \A x \in Present(c.fadeInSec) : IsNonNegative(x)
  /\ \A x \in Present(c.fadeOutSec) : IsNonNegative(x)
  /\ \A x \in Present(c.loop) : IsBoolean(x)
  /\ \A x \in Present(c.loopStartSec) : IsNonNegative(x)
  /\ \A x \in Present(c.loopEndSec) : IsNonNegative(x)
  /\ \A x \in Present(c.loopCrossfadeSec) : IsNonNegative(x)
  /\ \A x \in Present(c.idleBoostDb) : IsIdleBoostDb(x)
  /\ \A x \in Present(c.ducking) : bgmDuckingConfigSchema(x)

\* bgmConfigSchema as parsed: src is required, the defaults are filled in
bgmConfigSchema(c) ==
  /\ bgmConfigFields(c)
  /\ IsSome(c.maxGainDb) /\ IsSome(c.fadeInSec) /\ IsSome(c.fadeOutSec)
  /\ IsSome(c.loop) /\ IsSome(c.loopCrossfadeSec)

sceneBgmOverrideSchema(c) ==
  /\ bgmConfigFields(c)
  /\ \A x \in Present(c.transitionSec) : IsNonNegative(x)

videoConfigSchema(v) ==
  /\ IsPositive(v.fps) /\ IsPositive(v.width) /\ IsPositive(v.height)
  /\ IsNonNegative(v.defaultPauseSec)
  /\ \A x \in Present(v.bgm) : bgmConfigSchema(x)

\* blockSchema: the discriminated union has the one variant "dialogue"
blockSchema(b) ==
  /\ b.type = "dialogue"
  /\ Len(b.text) >= 1
  /\ \A x \in Present(b.pauseSec) : IsNonNegative(x)

sceneStyleSchema(st) == \A x \in Present(st.bgm) : sceneBgmOverrideSchema(x)

sceneSchema(sc) ==
  /\ \A x \in Present(sc.style) : sceneStyleSchema(x)
  /\ \A i \in 1..Len(sc.blocks) : blockSchema(sc.blocks[i])

\* parseScript succeeds
scriptSchema(s) ==
  /\ s.version = "0.1"
  /\ videoConfigSchema(s.video)
  /\ Len(s.scenes) >= 1
  /\ \A i \in 1..Len(s.scenes) : sceneSchema(s.scenes[i])

audioAssetSchema(a) == IsNonNegative(a.durationFrames)

bgmAssetSchema(a) == \A x \in Present(a.durationFrames) : IsPositive(x)

timelineAssetsSchema(a) ==
  /\ \A k \in DOMAIN a.audio : audioAssetSchema(a.audio[k])
  /\ \A m \in Present(a.bgm) : \A k \in DOMAIN m : bgmAssetSchema(m[k])

\* audioClipSchema, subtitleClipSchema, characterClipSchema: the interval
clipInterval(c) == IsNonNegative(c.start) /\ IsPositive(c.duration)

bgmDuckingSchema(d) ==
  /\ IsBoolean(d.enabled)
  /\ \A x \in Present(d.duckDeltaDb) : IsDuckDeltaDb(x)
  /\ IsNonNegative(d.attackFrames)
  /\ IsNonNegative(d.releaseFrames)
  /\ IsNonNegative(d.mergeGapFrames)
  /\ IsNonNegative(d.minHoldFrames)

bgmClipSchema(c) ==
  /\ IsNonNegative(c.start)
  /\ IsPositive(c.duration)
  /\ \A x \in Present(c.audioOffsetFrames) : IsNonNegative(x)
  /\ IsVolumeDb(c.volumeDb)
  /\ IsVolumeDb(c.maxGainDb)
  /\ IsNonNegative(c.fadeInFrames)
  /\ IsNonNegative(c.fadeOutFrames)
  /\ IsBoolean(c.loop)
  /\ \A x \in Present(c.loopStartFrames) : IsNonNegative(x)
  /\ \A x \in Present(c.loopEndFrames) : IsNonNegative(x)
  /\ \A x \in Present(c.loopCrossfadeFrames) : IsNonNegative(x)
  /\ IsIdleBoostDb(c.idleBoostDb)
  /\ bgmDuckingSchema(c.ducking)
  /\ \A x \in Present(c.transitionInFrames) : IsNonNegative(x)
  /\ \A x \in Present(c.transitionOutFrames) : IsNonNegative(x)

trackSchema(t) ==
  /\ t.type \in {"audio", "subtitle", "character", "bgm"}
  /\ \A i \in 1..Len(t.clips) :
       IF t.type = "bgm" THEN bgmClipSchema(t.clips[i])
       ELSE clipInterval(t.clips[i])

\* parseTimeline succeeds
timelineSchema(t) ==
  /\ t.version = "0.1"
  /\ IsPositive(t.meta.fps) /\ IsPositive(t.meta.width)
  /\ IsPositive(t.meta.height) /\ IsNonNegative(t.meta.totalFrames)
  /\ timelineAssetsSchema(t.assets)
  /\ \A i \in 1..Len(t.tracks) : trackSchema(t.tracks[i])

-----------------------------------------------------------------------------
(* The inputs drawn *)

MaxScenes == 2      \* scenes of a Script
MaxBlocks == 2      \* blocks of a Script, over all its scenes

RECURSIVE SeqsOfLen(_, _)
SeqsOfLen(S, n) ==
  IF n = 0 THEN {<<>>}
  ELSE {Append(q, x) : q \in SeqsOfLen(S, n - 1), x \in S}

RECURSIVE Perms(_)
Perms(S) ==
  IF S = {} THEN {<<>>}
  ELSE UNION {{<<x>> \o q : q \in Perms(S \ {x})} : x \in S}

\* the sequences of distinct elements of S
Arrangements(S) == UNION {Perms(T) : T \in SUBSET S}

\* scene lists of at most scenesLeft scenes and blocksLeft blocks; scene
\* number idx (from 0) has id "s<idx>"
RECURSIVE SceneLists(_, _, _, _, _)
SceneLists(idx, scenesLeft, blocksLeft, BlockSet, StyleSet) ==
  {<<>>} \cup
  (IF scenesLeft = 0 THEN {}
   ELSE UNION {
          {<<[id |-> "s" \o ToString(idx), style |-> st, blocks |-> bl]>> \o rest :
             st \in StyleSet,
             bl \in SeqsOfLen(BlockSet, k),
             rest \in SceneLists(idx + 1, scenesLeft - 1, blocksLeft - k,
                                 BlockSet, StyleSet)}
          : k \in 0..blocksLeft})

Video(defaultPauseSec, bgmConfig) ==
  [fps |-> 30, width |-> 1920, height |-> 1080,
   defaultPauseSec |-> defaultPauseSec, bgm |-> bgmConfig]

Scripts(VideoSet, SceneListSet) ==
  {[version |-> "0.1", video |-> v, cast |-> {"a"}, scenes |-> sc] :
     v \in VideoSet, sc \in SceneListSet}

PlainBlock ==
  [type |-> "dialogue", speaker |-> "a", text |-> "hi", pauseSec |-> None,
   id |-> None, audioKey |-> None, fileName |-> None]

Item(audioKey, audioSrc, durationInSeconds, fileName) ==
  [audioKey |-> audioKey, speakerId |-> 3, text |-> "hi", audioSrc |-> audioSrc,
   durationInSeconds |-> durationInSeconds, fileName |-> fileName]

\* Layout: pauses, the fallback duration, an unknown speaker, an unknown
\* block type
LayoutBlocks ==
  { PlainBlock,
    [PlainBlock EXCEPT !.pauseSec = Some(0), !.text = "p0"],
    [PlainBlock EXCEPT !.pauseSec = Some(75), !.speaker = "z", !.text = "p75"],
    [PlainBlock EXCEPT !.type = "note", !.text = "n"] }

LayoutItems ==
  { Item("s0:0", "audio/001.wav", 0, None),
    Item("s1:0", "audio/002.wav", 25, None) }

\* Binding: audioKey and fileName on the blocks of one scene, entries that
\* share a key or a file name
BindingBlocks ==
  { PlainBlock,
    [PlainBlock EXCEPT !.audioKey = Some("k")],
    [PlainBlock EXCEPT !.fileName = Some(".wav")],
    [PlainBlock EXCEPT !.fileName = Some("f.wav"), !.audioKey = Some("s0:0")],
    [PlainBlock EXCEPT !.fileName = Some("zzz"), !.audioKey = Some("k")],
    [PlainBlock EXCEPT !.fileName = Some(""), !.audioKey = Some("k")] }

BindingItems ==
  { Item("s0:0", "audio/001.wav", 50, None),
    Item("k", "audio/002.wav", 70, None),
    Item("k", "audio/003.wav", 90, Some("f.wav")) }

\* BGM: a video-level config, scene overrides of the source, of a setting
\* and of the transition only
NoBgmConfig ==
  [src |-> None, preset |-> None, volumeDb |-> None, volume |-> None,
   maxGainDb |-> None, fadeInSec |-> None, fadeOutSec |-> None, loop |-> None,
   loopStartSec |-> None, loopEndSec |-> None, loopCrossfadeSec |-> None,
   idleBoostDb |-> None, ducking |-> None, transitionSec |-> None]

\* a parsed video.bgm: src is a string, the schema's defaults are filled in
VideoBgm(src, preset) ==
  [src |-> src, preset |-> preset, volumeDb |-> None, volume |-> None,
   maxGainDb |-> Some(-3), fadeInSec |-> Some(100), fadeOutSec |-> Some(100),
   loop |-> Some(TRUE), loopStartSec |-> None, loopEndSec |-> None,
   loopCrossfadeSec |-> Some(25), idleBoostDb |-> None, ducking |-> None]

BgmVideos ==
  { Video(50, Some(VideoBgm("a.mp3", None))),
    Video(50, Some(VideoBgm("a.mp3", Some("calm")))) }

BgmStyles ==
  { None,
    Some([bgm |-> Some([NoBgmConfig EXCEPT !.src = Some("b.mp3"),
                                           !.transitionSec = Some(50)])]),
    Some([bgm |-> Some([NoBgmConfig EXCEPT !.volumeDb = Some(-20)])]),
    Some([bgm |-> Some([NoBgmConfig EXCEPT !.transitionSec = Some(50)])]) }

BgmDurations ==
  { EmptyMap, MapPut(EmptyMap, generateBgmAssetId("a.mp3"), 40) }

InitLayout ==
  /\ script \in Scripts({Video(0, None), Video(50, None)},
                        SceneLists(0, MaxScenes, MaxBlocks, LayoutBlocks, {None}))
  /\ options \in {[audioManifest |-> m, bgmDurationFrames |-> EmptyMap] :
                    m \in Arrangements(LayoutItems)}

InitBinding ==
  /\ script \in Scripts({Video(0, None)},
                        SceneLists(0, 1, MaxBlocks, BindingBlocks, {None}))
  /\ options \in {[audioManifest |-> m, bgmDurationFrames |-> EmptyMap] :
                    m \in Arrangements(BindingItems)}

InitBgm ==
  /\ script \in Scripts(BgmVideos,
                        SceneLists(0, MaxScenes, MaxBlocks, {PlainBlock}, BgmStyles))
  /\ options \in {[audioManifest |-> m, bgmDurationFrames |-> d] :
                    m \in {<<Item("s0:0", "audio/001.wav", 25, None)>>},
                    d \in BgmDurations}

-----------------------------------------------------------------------------
(* The state machine *)

Apply(n) ==
  /\ pc' = n.pc
  /\ sceneIdx' = n.sceneIdx
  /\ sceneStartFrame' = n.sceneStartFrame
  /\ blockIndex' = n.blockIndex
  /\ globalBlockIndex' = n.globalBlockIndex
  /\ currentFrame' = n.currentFrame
  /\ audioTrack' = n.audioTrack
  /\ subtitleTrack' = n.subtitleTrack
  /\ characterTrack' = n.characterTrack
  /\ assets' = n.assets
  /\ sceneTimings' = n.sceneTimings
  /\ warnings' = n.warnings
  /\ bgm' = n.bgm
  /\ timeline' = n.timeline
  /\ UNCHANGED <<script, options, render>>

Init ==
  /\ (InitLayout \/ InitBinding \/ InitBgm)
  /\ pc = InitialLocals(script).pc
  /\ sceneIdx = 1
  /\ sceneStartFrame = 0
  /\ blockIndex = 0
  /\ globalBlockIndex = 0
  /\ currentFrame = 0
  /\ audioTrack = <<>>
  /\ subtitleTrack = <<>>
  /\ characterTrack = <<>>
  /\ assets = [audio |-> EmptyMap, bgm |-> None]
  /\ sceneTimings = <<>>
  /\ warnings = <<>>
  /\ bgm = BgmInit
  /\ timeline = None
  /\ render = None

ProcessBlock ==
  /\ CanProcessBlock(Locals, script)
  /\ Apply(BlockStep(Locals, script, options))

EndScene ==
  /\ CanEndScene(Locals, script)
  /\ Apply(SceneEndStep(Locals, script))

PlanBgmNoScenes ==
  /\ CanBgmNoScenes(Locals)
  /\ Apply(BgmNoScenesStep(Locals, script, options))

PlanBgmScene ==
  /\ CanBgmScene(Locals)
  /\ Apply(BgmSceneStep(Locals, script, options))

PlanBgmReturn ==
  /\ CanBgmReturn(Locals)
  /\ Apply(BgmReturnStep(Locals))

Assemble ==
  /\ CanAssemble(Locals)
  /\ Apply(AssembleStep(Locals, script))

Next ==
  \/ ProcessBlock
  \/ EndScene
  \/ PlanBgmNoScenes
  \/ PlanBgmScene
  \/ PlanBgmReturn
  \/ Assemble

Spec == Init /\ [][Next]_vars

-----------------------------------------------------------------------------
(* The BGM planner over longer scene sequences *)

MaxPlanScenes == 4      \* scenes of a Script of the planner's runs

\* scene overrides: none, another source entered without transition time,
\* a volume, no loop, a loop window
PlanStyles ==
  { None,
    Some([bgm |-> Some([NoBgmConfig EXCEPT !.src = Some("b.mp3"),
                                           !.transitionSec = Some(0)])]),
    Some([bgm |-> Some([NoBgmConfig EXCEPT !.volumeDb = Some(-20)])]),
    Some([bgm |-> Some([NoBgmConfig EXCEPT !.loop = Some(FALSE)])]),
    Some([bgm |-> Some([NoBgmConfig EXCEPT !.loopStartSec = Some(50),
                                           !.loopEndSec = Some(100)])]) }

\* scene lists of at most scenesLeft scenes of one block each
RECURSIVE PlanSceneLists(_, _, _)
PlanSceneLists(idx, scenesLeft, StyleSet) ==
  {<<>>} \cup
  (IF scenesLeft = 0 THEN {}
   ELSE {<<[id |-> "s" \o ToString(idx), style |-> st,
            blocks |-> <<PlainBlock>>]>> \o rest :
           st \in StyleSet,
           rest \in PlanSceneLists(idx + 1, scenesLeft - 1, StyleSet)})

InitPlan ==
  /\ script \in Scripts({Video(50, Some(VideoBgm("a.mp3", None)))},
                        PlanSceneLists(0, MaxPlanScenes, PlanStyles))
  /\ options \in {[audioManifest |-> <<Item("s0:0", "audio/001.wav", 25, None)>>,
                   bgmDurationFrames |-> d] : d \in BgmDurations}
  /\ pc = InitialLocals(script).pc
  /\ sceneIdx = 1
  /\ sceneStartFrame = 0
  /\ blockIndex = 0
  /\ globalBlockIndex = 0
  /\ currentFrame = 0
  /\ audioTrack = <<>>
  /\ subtitleTrack = <<>>
  /\ characterTrack = <<>>
  /\ assets = [audio |-> EmptyMap, bgm |-> None]
  /\ sceneTimings = <<>>
  /\ warnings = <<>>
  /\ bgm = BgmInit
  /\ timeline = None
  /\ render = None

SpecPlan == InitPlan /\ [][Next]_vars

(* The BGM planner over several sources *)

MaxSourceScenes == 3    \* scenes of a Script of the runs over several sources

\* scene overrides: none, or another source
SourceStyles ==
  { None,
    Some([bgm |-> Some([NoBgmConfig EXCEPT !.src = Some("BB.mp3")])]),
    Some([bgm |-> Some([NoBgmConfig EXCEPT !.src = Some("b.mp3")])]) }

InitSources ==
  /\ script \in Scripts({Video(50, Some(VideoBgm(src, None))) : src \in {"Aa.mp3", "a.mp3"}},
                        PlanSceneLists(0, MaxSourceScenes, SourceStyles))
  /\ options \in {[audioManifest |-> <<Item("s0:0", "audio/001.wav", 25, None)>>,
                   bgmDurationFrames |-> d] : d \in BgmDurations}
  /\ pc = InitialLocals(script).pc
  /\ sceneIdx = 1
  /\ sceneStartFrame = 0
  /\ blockIndex = 0
  /\ globalBlockIndex = 0
  /\ currentFrame = 0
  /\ audioTrack = <<>>
  /\ subtitleTrack = <<>>
  /\ characterTrack = <<>>
  /\ assets = [audio |-> EmptyMap, bgm |-> None]
  /\ sceneTimings = <<>>
  /\ warnings = <<>>
  /\ bgm = BgmInit
  /\ timeline = None
  /\ render = None

SpecSources == InitSources /\ [][Next]_vars

(* The BGM planner over fades and transitions *)

MaxTrackScenes == 3     \* scenes of a Script of the runs over fades

\* scene overrides: none, other fades, a transition time only, another
\* source entered in the default transition time, and in half a second
TrackStyles ==
  { None,
    Some([bgm |-> Some([NoBgmConfig EXCEPT !.fadeInSec = Some(0),
                                           !.fadeOutSec = Some(200)])]),
    Some([bgm |-> Some([NoBgmConfig EXCEPT !.transitionSec = Some(50)])]),
    Some([bgm |-> Some([NoBgmConfig EXCEPT !.src = Some("b.mp3")])]),
    Some([bgm |-> Some([NoBgmConfig EXCEPT !.src = Some("b.mp3"),
                                           !.transitionSec = Some(50)])]) }

InitTrack ==
  /\ script \in Scripts({Video(50, Some(VideoBgm("a.mp3", None)))},
                        PlanSceneLists(0, MaxTrackScenes, TrackStyles))
  /\ options = [audioManifest |->
                  [i \in 1..(MaxTrackScenes + 1) |->
                     Item("s" \o ToString(i - 1) \o ":0",
                          "audio/" \o ZeroPad(i, 3) \o ".wav", 25, None)],
                bgmDurationFrames |-> EmptyMap]
  /\ pc = InitialLocals(script).pc
  /\ sceneIdx = 1
  /\ sceneStartFrame = 0
  /\ blockIndex = 0
  /\ globalBlockIndex = 0
  /\ currentFrame = 0
  /\ audioTrack = <<>>
  /\ subtitleTrack = <<>>
  /\ characterTrack = <<>>
  /\ assets = [audio |-> EmptyMap, bgm |-> None]
  /\ sceneTimings = <<>>
  /\ warnings = <<>>
  /\ bgm = BgmInit
  /\ timeline = None
  /\ render = None

SpecTrack == InitTrack /\ [][Next]_vars

(* Scripts as their author wrote them, and parseScript *)

\* bgmDuckingConfigSchema.parse: a field with a default that was not
\* written comes out with the default
parseBgmDucking(d) ==
  [d EXCEPT !.enabled = Some(OrElse(@, TRUE)),
            !.attackSec = Some(OrElse(@, 10)),
            !.releaseSec = Some(OrElse(@, 25)),
            !.mergeGapSec = Some(OrElse(@, 35)),
            !.minHoldSec = Some(OrElse(@, 60))]

\* bgmConfigSchema.parse
parseBgmConfig(c) ==
  [c EXCEPT !.maxGainDb = Some(OrElse(@, -3)),
            !.fadeInSec = Some(OrElse(@, 100)),
            !.fadeOutSec = Some(OrElse(@, 100)),
            !.loop = Some(OrElse(@, TRUE)),
            !.loopCrossfadeSec = Some(OrElse(@, 25)),
            !.ducking = IF IsSome(@) THEN Some(parseBgmDucking(@[1])) ELSE None]

\* sceneBgmOverrideSchema.parse: partial() makes the fields of the override
\* optional, an absent one stays absent; the ducking object keeps its schema
parseSceneBgmOverride(c) ==
  [c EXCEPT !.ducking = IF IsSome(@) THEN Some(parseBgmDucking(@[1])) ELSE None]

\* parseScript, of a Script written as [video.bgm, the scenes' style.bgm];
\* every scene has one block
parseScript(written) ==
  [version |-> "0.1",
   video |-> Video(50, Some(parseBgmConfig(written.bgm))),
   cast |-> {"a"},
   scenes |-> [i \in 1..Len(written.scenes) |->
                 [id |-> "s" \o ToString(i - 1),
                  style |-> IF IsSome(written.scenes[i])
                            THEN Some([bgm |-> Some(parseSceneBgmOverride(
                                                      written.scenes[i][1]))])
                            ELSE None,
                  blocks |-> <<PlainBlock>>]]]

MaxWrittenScenes == 2   \* scenes of a written Script

\* video.bgm as written
WrittenVideoBgm ==
  LET Plain == [src |-> "a.mp3", preset |-> None, volumeDb |-> None, volume |-> None,
                maxGainDb |-> None, fadeInSec |-> None, fadeOutSec |-> None,
                loop |-> None, loopStartSec |-> None, loopEndSec |-> None,
                loopCrossfadeSec |-> None, idleBoostDb |-> None, ducking |-> None]
  IN  { Plain,
        [Plain EXCEPT !.preset = Some("calm")],
        [Plain EXCEPT !.preset = Some("calm"), !.maxGainDb = Some(-1),
                      !.loopStartSec = Some(50)],
        [Plain EXCEPT !.preset = Some("hype"),
                      !.ducking = Some([NoDucking EXCEPT !.duckDeltaDb = Some(-12)])] }

\* style.bgm of a scene as written (optional)
WrittenOverrides ==
  { None,
    Some([NoBgmConfig EXCEPT !.volumeDb = Some(-20)]),
    Some([NoBgmConfig EXCEPT !.preset = Some("calm")]),
    Some([NoBgmConfig EXCEPT !.maxGainDb = Some(-6), !.loop = Some(FALSE)]),
    Some([NoBgmConfig EXCEPT !.ducking = Some([NoDucking EXCEPT !.attackSec = Some(20)])]) }

WrittenScripts ==
  { [bgm |-> b, scenes |-> sc] :
      b \in WrittenVideoBgm,
      sc \in UNION {SeqsOfLen(WrittenOverrides, k) : k \in 0..MaxWrittenScenes} }

InitWritten ==
  /\ script \in {parseScript(w) : w \in WrittenScripts}
  /\ options = [audioManifest |-> <<Item("s0:0", "audio/001.wav", 25, None)>>,
                bgmDurationFrames |-> EmptyMap]
  /\ pc = InitialLocals(script).pc
  /\ sceneIdx = 1
  /\ sceneStartFrame = 0
  /\ blockIndex = 0
  /\ globalBlockIndex = 0
  /\ currentFrame = 0
  /\ audioTrack = <<>>
  /\ subtitleTrack = <<>>
  /\ characterTrack = <<>>
  /\ assets = [audio |-> EmptyMap, bgm |-> None]
  /\ sceneTimings = <<>>
  /\ warnings = <<>>
  /\ bgm = BgmInit
  /\ timeline = None
  /\ render = None

SpecWritten == InitWritten /\ [][Next]_vars

-----------------------------------------------------------------------------
(* Numbers of the renderer: exact fractions n/d, d > 0 *)

RECURSIVE GCD(_, _)
GCD(a, b) == IF b = 0 THEN a ELSE GCD(b, a % b)

Frac(n, d) ==
  TheOne({ [n |-> n \div g, d |-> d \div g]
           : g \in {GCD(IF n < 0 THEN -n ELSE n, d)} })

Whole(k) == [n |-> k, d |-> 1]
Mul(a, b) == Frac(a.n * b.n, a.d * b.d)
Sub(a, b) == Frac(a.n * b.d - b.n * a.d, a.d * b.d)
Add(a, b) == Frac(a.n * b.d + b.n * a.d, a.d * b.d)
Leq(a, b) == a.n * b.d <= b.n * a.d
Less(a, b) == a.n * b.d < b.n * a.d
\* Math.min, Math.max
MathMin(a, b) == IF Leq(a, b) THEN a ELSE b
MathMax(a, b) == IF Leq(a, b) THEN b ELSE a

-----------------------------------------------------------------------------
(* domain/audio (src/unnamed/part_007) *)

VOLUME_DB_MIN == -60
VOLUME_DB_MAX == 6
DUCK_DELTA_DB_MIN == -60
DUCK_DELTA_DB_MAX == 0

\* clamp, on decibels
clamp(value, min, max) == Min(max, Max(min, value))

\* clamp, on gains
clampGain(value, min, max) == MathMin(max, MathMax(min, value))

\* 10^(dB/20) for dB = -60 .. 6, in hundredths, rounded to the nearest
PowersOfTen ==
  << 0, 0, 0, 0, 0, 0, 0, 0, 0, 0, 0, 0, 0, 0, 1, 1, 1,
     1, 1, 1, 1, 1, 1, 1, 2, 2, 2, 2, 3, 3, 3, 4, 4, 4,
     5, 6, 6, 7, 8, 9, 10, 11, 13, 14, 16, 18, 20, 22, 25, 28, 32,
     35, 40, 45, 50, 56, 63, 71, 79, 89, 100, 112, 126, 141, 158, 178, 200 >>

\* dbToGain
dbToGain(db) ==
  Frac(PowersOfTen[clamp(db, VOLUME_DB_MIN, VOLUME_DB_MAX) - VOLUME_DB_MIN + 1], 100)

-----------------------------------------------------------------------------
(* BgmTrack (src/unnamed/part_009): intervals *)

\* [...intervals].sort((a, b) => a.start - b.start): a stable sort
RECURSIVE InsertByStart(_, _)
InsertByStart(sorted, x) ==
  IF sorted = <<>> THEN <<x>>
  ELSE IF sorted[Len(sorted)].start <= x.start THEN Append(sorted, x)
  ELSE Append(InsertByStart(SubSeq(sorted, 1, Len(sorted) - 1), x),
              sorted[Len(sorted)])

RECURSIVE SortByStart(_)
SortByStart(intervals) ==
  IF intervals = <<>> THEN <<>>
  ELSE InsertByStart(SortByStart(SubSeq(intervals, 1, Len(intervals) - 1)),
                     intervals[Len(intervals)])

\* a hold that lengthens every interval by minHoldFrames
HeldLonger(sorted, minHoldFrames, maxEndFrame) ==
  [i \in 1..Len(sorted) |->
     [start |-> sorted[i].start,
      end |-> Min(maxEndFrame, sorted[i].end + minHoldFrames)]]

\* stabilizeIntervals: "Apply minHold"
Held(sorted, minHoldFrames, maxEndFrame) ==
  [i \in 1..Len(sorted) |->
     [start |-> sorted[i].start,
      end |-> Min(maxEndFrame, Max(sorted[i].end, sorted[i].start + minHoldFrames))]]

\* a merge loop that leaves a gap of exactly mergeGapFrames open
RECURSIVE MergeFromBelowGap(_, _, _, _, _)
MergeFromBelowGap(held, i, merged, current, mergeGapFrames) ==
  IF i > Len(held) THEN Append(merged, current)
  ELSE IF held[i].start < current.end + mergeGapFrames
  THEN MergeFromBelowGap(held, i + 1, merged,
                 [start |-> current.start, end |-> Max(current.end, held[i].end)],
                 mergeGapFrames)
  ELSE MergeFromBelowGap(held, i + 1, Append(merged, current), held[i],
                         mergeGapFrames)

\* stabilizeIntervals: the merge loop from index i, with merged and current
RECURSIVE MergeFrom(_, _, _, _, _)
MergeFrom(held, i, merged, current, mergeGapFrames) ==
  IF i > Len(held) THEN Append(merged, current)
  ELSE IF held[i].start <= current.end + mergeGapFrames
  THEN MergeFrom(held, i + 1, merged,
                 [start |-> current.start, end |-> Max(current.end, held[i].end)],
                 mergeGapFrames)
  ELSE MergeFrom(held, i + 1, Append(merged, current), held[i], mergeGapFrames)

\* stabilizeIntervals
stabilizeIntervals(intervals, mergeGapFrames, minHoldFrames, maxEndFrame) ==
  IF Len(intervals) = 0 THEN <<>>
  ELSE TheOne({ MergeFrom(held, 2, <<>>, held[1], mergeGapFrames)
                : held \in {Held(SortByStart(intervals), minHoldFrames, maxEndFrame)} })

-----------------------------------------------------------------------------
(* BgmTrack (src/unnamed/part_009): gains *)

\* DEFAULT_MAX_GAIN_DB and DEFAULT_IDLE_BOOST_DB of the component
\* (part_009:42-43) have the values of the compiler's, defined above.

\* getBaseGain
getBaseGain(clip) ==
  IF IsSome(clip.volumeDb)
  THEN dbToGain(clamp(clip.volumeDb[1], VOLUME_DB_MIN, VOLUME_DB_MAX))
  ELSE IF IsSome(clip.volume)
  THEN clampGain(clip.volume[1], Whole(0), Whole(1))
  ELSE dbToGain(DEFAULT_BASE_DB)

\* getIdleGain
getIdleGain(clip, baseGain) ==
  Mul(baseGain, dbToGain(OrElse(clip.idleBoostDb, DEFAULT_IDLE_BOOST_DB)))

\* getTalkGain
getTalkGain(clip, baseGain) ==
  IF ~IsSome(clip.ducking) \/ ~clip.ducking[1].enabled THEN baseGain
  ELSE LET ducking == clip.ducking[1]
       IN  IF IsSome(ducking.duckDeltaDb)
           THEN Mul(baseGain,
                    dbToGain(clamp(ducking.duckDeltaDb[1],
                                   DUCK_DELTA_DB_MIN, DUCK_DELTA_DB_MAX)))
           ELSE IF IsSome(ducking.duckVolumeDb)
           THEN dbToGain(clamp(ducking.duckVolumeDb[1], VOLUME_DB_MIN, VOLUME_DB_MAX))
           ELSE IF IsSome(ducking.duckVolume)
           THEN Mul(baseGain, clampGain(ducking.duckVolume[1], Whole(0), Whole(1)))
           ELSE Mul(baseGain, dbToGain(DEFAULT_DUCK_DELTA_DB))

\* getMaxGain
getMaxGain(clip) ==
  dbToGain(clamp(OrElse(clip.maxGainDb, DEFAULT_MAX_GAIN_DB),
                 VOLUME_DB_MIN, VOLUME_DB_MAX))

\* the least element of a set of numbers, Infinity (None) for the empty set
Least(S) == IF S = {} THEN None ELSE Some(CHOOSE x \in S : \A y \in S : x <= y)

\* calculateDuckedGain: the loop over the intervals
isInDucking(globalFrame, duckIntervals) ==
  \E i \in 1..Len(duckIntervals) :
    globalFrame >= duckIntervals[i].start /\ globalFrame < duckIntervals[i].end

minDistanceToStart(globalFrame, duckIntervals) ==
  Least({duckIntervals[i].start - globalFrame :
           i \in {j \in 1..Len(duckIntervals) : globalFrame < duckIntervals[j].start}})

minDistanceFromEnd(globalFrame, duckIntervals) ==
  Least({globalFrame - duckIntervals[i].end :
           i \in {j \in 1..Len(duckIntervals) : globalFrame >= duckIntervals[j].end}})

\* the release ramp running the wrong way: talkGain reached at its far end
calculateDuckedGainFallingRelease(globalFrame, duckIntervals, idleGain, talkGain, attackFrames, releaseFrames) ==
  LET safeAttackFrames == Max(1, attackFrames)
      safeReleaseFrames == Max(1, releaseFrames)
      toStart == minDistanceToStart(globalFrame, duckIntervals)
      fromEnd == minDistanceFromEnd(globalFrame, duckIntervals)
  IN  IF isInDucking(globalFrame, duckIntervals) THEN talkGain
      ELSE IF IsSome(toStart) /\ toStart[1] <= safeAttackFrames
      THEN Sub(idleGain, Mul(Sub(idleGain, talkGain),
                             Sub(Whole(1), Frac(toStart[1], safeAttackFrames))))
      ELSE IF IsSome(fromEnd) /\ fromEnd[1] < safeReleaseFrames
      THEN Sub(idleGain, Mul(Sub(idleGain, talkGain),
                             Frac(fromEnd[1], safeReleaseFrames)))
      ELSE idleGain

\* calculateDuckedGain
calculateDuckedGain(globalFrame, duckIntervals, idleGain, talkGain, attackFrames, releaseFrames) ==
  LET safeAttackFrames == Max(1, attackFrames)
      safeReleaseFrames == Max(1, releaseFrames)
      toStart == minDistanceToStart(globalFrame, duckIntervals)
      fromEnd == minDistanceFromEnd(globalFrame, duckIntervals)
      hasUpcomingDuck == IsSome(toStart) /\ toStart[1] <= safeAttackFrames
  IN  IF isInDucking(globalFrame, duckIntervals) THEN talkGain
      ELSE IF IsSome(toStart) /\ toStart[1] <= safeAttackFrames
      THEN LET progress == Sub(Whole(1), Frac(toStart[1], safeAttackFrames))
           IN  Sub(idleGain, Mul(Sub(idleGain, talkGain), progress))
      ELSE IF IsSome(fromEnd) /\ fromEnd[1] < safeReleaseFrames /\ ~hasUpcomingDuck
      THEN LET progress == Frac(fromEnd[1], safeReleaseFrames)
           IN  Add(talkGain, Mul(Sub(idleGain, talkGain), progress))
      ELSE idleGain

-----------------------------------------------------------------------------
(* BgmTrack (src/unnamed/part_009): loop segments *)

\* generateLoopSegments: the while loop
RECURSIVE LoopSegmentsFrom(_, _, _, _, _, _, _)
LoopSegmentsFrom(segments, clipOffset, isFirst, clipDuration, loopStart, loopEnd, effectiveCrossfade) ==
  IF ~(clipOffset < clipDuration) THEN segments
  ELSE
    LET loopLength == loopEnd - loopStart
        audioStart == IF isFirst THEN 0 ELSE loopStart
        segmentAudioLength == IF isFirst THEN loopEnd ELSE loopLength
        remaining == clipDuration - clipOffset
        segmentDuration == Min(segmentAudioLength, remaining)
        isLast == clipOffset + segmentDuration >= clipDuration
        pushed == Append(segments,
                    [clipOffset |-> clipOffset,
                     duration |-> segmentDuration
                                    + (IF isLast THEN 0 ELSE effectiveCrossfade),
                     audioStartFrame |-> audioStart,
                     fadeInFrames |-> IF isFirst THEN 0 ELSE effectiveCrossfade,
                     fadeOutFrames |-> IF isLast THEN 0 ELSE effectiveCrossfade])
    IN  IF segmentDuration <= 0 THEN pushed
        ELSE LoopSegmentsFrom(pushed, clipOffset + segmentDuration, FALSE,
                              clipDuration, loopStart, loopEnd, effectiveCrossfade)

\* a generator that takes the crossfade as given
generateLoopSegmentsFullCrossfade(clipDuration, audioDurationFrames, loopStartFrames, loopEndFrames, loopCrossfadeFrames) ==
  LET loopStart == OrElse(loopStartFrames, 0)
      loopEnd0 == OrElse(loopEndFrames, audioDurationFrames)
      loopEnd == IF loopEnd0 <= loopStart \/ loopStart < 0
                    \/ loopEnd0 > audioDurationFrames
                 THEN audioDurationFrames ELSE loopEnd0
      loopLength == loopEnd - loopStart
      crossfade == OrElse(loopCrossfadeFrames, 0)
  IN  IF loopLength <= 0
      THEN << [clipOffset |-> 0,
               duration |-> Min(clipDuration, audioDurationFrames),
               audioStartFrame |-> 0,
               fadeInFrames |-> 0,
               fadeOutFrames |-> 0] >>
      ELSE LoopSegmentsFrom(<<>>, 0, TRUE, clipDuration, loopStart, loopEnd,
                            crossfade)

\* generateLoopSegments
generateLoopSegments(clipDuration, audioDurationFrames, loopStartFrames, loopEndFrames, loopCrossfadeFrames) ==
  LET loopStart == OrElse(loopStartFrames, 0)
      loopEnd0 == OrElse(loopEndFrames, audioDurationFrames)
      loopEnd == IF loopEnd0 <= loopStart \/ loopStart < 0
                    \/ loopEnd0 > audioDurationFrames
                 THEN audioDurationFrames ELSE loopEnd0
      loopLength == loopEnd - loopStart
      crossfade == OrElse(loopCrossfadeFrames, 0)
      effectiveCrossfade == Min(crossfade, loopLength \div 2)
  IN  IF loopLength <= 0
      THEN << [clipOffset |-> 0,
               duration |-> Min(clipDuration, audioDurationFrames),
               audioStartFrame |-> 0,
               fadeInFrames |-> 0,
               fadeOutFrames |-> 0] >>
      ELSE LoopSegmentsFrom(<<>>, 0, TRUE, clipDuration, loopStart, loopEnd,
                            effectiveCrossfade)

\* LoopSegmentAudio: "Fade in at segment start"
segmentFadeInMul(segment, frame) ==
  IF segment.fadeInFrames > 0 /\ frame < segment.fadeInFrames
  THEN Frac(frame, segment.fadeInFrames)
  ELSE Whole(1)

\* a multiplier that rises over the crossfade instead of falling
segmentFadeOutMulRising(segment, frame) ==
  IF segment.fadeOutFrames > 0 /\ frame >= segment.duration - segment.fadeOutFrames
  THEN Frac(frame - (segment.duration - segment.fadeOutFrames), segment.fadeOutFrames)
  ELSE Whole(1)

\* LoopSegmentAudio: "Fade out at segment end"
segmentFadeOutMul(segment, frame) ==
  IF segment.fadeOutFrames > 0
  THEN LET fadeOutStart == segment.duration - segment.fadeOutFrames
       IN  IF frame >= fadeOutStart
           THEN Sub(Whole(1), Frac(frame - fadeOutStart, segment.fadeOutFrames))
           ELSE Whole(1)
  ELSE Whole(1)

\* LoopSegmentAudio: volume, baseVol being volumeCalculator(segment.clipOffset + frame)
LoopSegmentAudio(segment, frame, baseVol) ==
  Mul(baseVol, Mul(segmentFadeInMul(segment, frame),
                   segmentFadeOutMul(segment, frame)))

-----------------------------------------------------------------------------
(* BgmTrack (src/unnamed/part_009): BgmClipComponent *)

\* params
ClipParams(clip) ==
  TheOne({ [baseGain |-> baseGain,
            idleGain |-> getIdleGain(clip, baseGain),
            talkGain |-> getTalkGain(clip, baseGain),
            maxGain |-> getMaxGain(clip),
            duckingEnabled |-> IF IsSome(clip.ducking)
                               THEN clip.ducking[1].enabled ELSE TRUE,
            fadeInFrames |-> Max(1, OrElse(clip.fadeInFrames, 30)),
            fadeOutFrames |-> Max(1, OrElse(clip.fadeOutFrames, 30)),
            attackFrames |-> IF IsSome(clip.ducking)
                             THEN clip.ducking[1].attackFrames ELSE 3,
            releaseFrames |-> IF IsSome(clip.ducking)
                              THEN clip.ducking[1].releaseFrames ELSE 8,
            transitionInFrames |-> clip.transitionInFrames,
            transitionOutFrames |-> clip.transitionOutFrames]
           : baseGain \in {getBaseGain(clip)} })

\* calculateVolume: "Ducking"; the gain and whether calculateDuckedGain gave it
DuckingOf(clip, params, duckIntervals, localFrame) ==
  IF params.duckingEnabled /\ Len(duckIntervals) > 0
  THEN Some(calculateDuckedGain(clip.start + localFrame, duckIntervals,
                                params.idleGain, params.talkGain,
                                params.attackFrames, params.releaseFrames))
  ELSE None

\* a volume that is not clamped to maxGain
calculateVolumeUnclamped(clip, params, currentGain, localFrame) ==
  MathMax(Whole(0), currentGain)

\* calculateVolume, currentGain being the gain after "Ducking"
calculateVolume(clip, params, currentGain, localFrame) ==
  LET fadeInMul == IF localFrame < params.fadeInFrames
                   THEN Frac(localFrame, params.fadeInFrames) ELSE Whole(1)
      fadeOutStart == clip.duration - params.fadeOutFrames
      fadeOutMul == IF localFrame >= fadeOutStart /\ params.fadeOutFrames > 0
                    THEN MathMax(Whole(0),
                                 Sub(Whole(1), Frac(localFrame - fadeOutStart,
                                                    params.fadeOutFrames)))
                    ELSE Whole(1)
      tIn == params.transitionInFrames
      transitionInMul == IF IsSome(tIn) /\ tIn[1] > 0 /\ localFrame < tIn[1]
                         THEN Frac(localFrame, tIn[1]) ELSE Whole(1)
      tOut == params.transitionOutFrames
      transitionOutMul ==
        IF IsSome(tOut) /\ tOut[1] > 0 /\ localFrame >= clip.duration - tOut[1]
        THEN MathMax(Whole(0),
                     Sub(Whole(1), Frac(localFrame - (clip.duration - tOut[1]),
                                        tOut[1])))
        ELSE Whole(1)
      finalGain == Mul(Mul(Mul(Mul(currentGain, fadeInMul), fadeOutMul),
                           transitionInMul), transitionOutMul)
  IN  clampGain(finalGain, Whole(0), params.maxGain)

-----------------------------------------------------------------------------
(* BgmTrack rendering one clip, frame by frame *)

MaxIntervals == 2       \* talking intervals of the character track

RawIntervals ==
  { [start |-> 0, end |-> 2], [start |-> 1, end |-> 3], [start |-> 3, end |-> 4],
    [start |-> 2, end |-> 6], [start |-> 6, end |-> 8] }

\* lists, in any order, of at most MaxIntervals intervals
IntervalLists == UNION {SeqsOfLen(RawIntervals, k) : k \in 0..MaxIntervals}

\* BgmClips of a Timeline, with the duration of their asset
RenderClips ==
  LET
      \* clip.ducking: none, immediate, smoothed and stabilized, disabled
      ClipDuckings ==
        { None,
          Some([enabled |-> TRUE, duckDeltaDb |-> Some(-8), duckVolumeDb |-> None,
                duckVolume |-> None, attackFrames |-> 0, releaseFrames |-> 1,
                mergeGapFrames |-> Some(0), minHoldFrames |-> Some(0)]),
          Some([enabled |-> TRUE, duckDeltaDb |-> None, duckVolumeDb |-> Some(-6),
                duckVolume |-> None, attackFrames |-> 2, releaseFrames |-> 3,
                mergeGapFrames |-> Some(1), minHoldFrames |-> Some(3)]),
          Some([enabled |-> FALSE, duckDeltaDb |-> None, duckVolumeDb |-> None,
                duckVolume |-> Some(Frac(1, 2)), attackFrames |-> 3, releaseFrames |-> 8,
                mergeGapFrames |-> None, minHoldFrames |-> None]) }

      \* volumeDb, volume, maxGainDb, idleBoostDb
      ClipGains ==
        { [volumeDb |-> Some(-12), volume |-> None, maxGainDb |-> None, idleBoostDb |-> None],
          [volumeDb |-> Some(0), volume |-> None, maxGainDb |-> Some(-6),
           idleBoostDb |-> Some(6)],
          [volumeDb |-> None, volume |-> Some(Frac(1, 2)), maxGainDb |-> Some(6),
           idleBoostDb |-> Some(-12)] }

      \* fadeInFrames, fadeOutFrames, transitionInFrames, transitionOutFrames
      ClipFades ==
        { [fadeInFrames |-> Some(1), fadeOutFrames |-> Some(1),
           transitionInFrames |-> None, transitionOutFrames |-> None],
          [fadeInFrames |-> Some(2), fadeOutFrames |-> Some(3),
           transitionInFrames |-> Some(2), transitionOutFrames |-> Some(2)] }

      \* loop, the asset's durationFrames, loopStartFrames, loopEndFrames,
      \* loopCrossfadeFrames
      ClipLoops ==
        { [loop |-> Some(TRUE), durationFrames |-> None, loopStartFrames |-> None,
           loopEndFrames |-> None, loopCrossfadeFrames |-> Some(8)],
          [loop |-> Some(TRUE), durationFrames |-> Some(3), loopStartFrames |-> None,
           loopEndFrames |-> None, loopCrossfadeFrames |-> Some(1)],
          [loop |-> None, durationFrames |-> Some(4), loopStartFrames |-> Some(1),
           loopEndFrames |-> Some(3), loopCrossfadeFrames |-> Some(2)],
          [loop |-> Some(TRUE), durationFrames |-> Some(4), loopStartFrames |-> None,
           loopEndFrames |-> None, loopCrossfadeFrames |-> Some(2)] }

      \* start and duration
      ClipSpans == { [start |-> 0, duration |-> 6], [start |-> 1, duration |-> 4] }
  IN
    { [clip |-> [assetId |-> "bgm_1", start |-> sp.start, duration |-> sp.duration,
                 volumeDb |-> g.volumeDb, volume |-> g.volume,
                 maxGainDb |-> g.maxGainDb, idleBoostDb |-> g.idleBoostDb,
                 fadeInFrames |-> f.fadeInFrames, fadeOutFrames |-> f.fadeOutFrames,
                 transitionInFrames |-> f.transitionInFrames,
                 transitionOutFrames |-> f.transitionOutFrames,
                 loop |-> l.loop, loopStartFrames |-> l.loopStartFrames,
                 loopEndFrames |-> l.loopEndFrames,
                 loopCrossfadeFrames |-> l.loopCrossfadeFrames,
                 ducking |-> d],
       audioDurationFrames |-> l.durationFrames]
      : sp \in ClipSpans, g \in ClipGains, f \in ClipFades, l \in ClipLoops,
        d \in ClipDuckings }

\* compile is not running
CompileAtRest ==
  /\ script \in Scripts({Video(50, None)}, {<<>>})
  /\ options = [audioManifest |-> <<>>, bgmDurationFrames |-> EmptyMap]
  /\ pc = "rendering"
  /\ sceneIdx = 1
  /\ sceneStartFrame = 0
  /\ blockIndex = 0
  /\ globalBlockIndex = 0
  /\ currentFrame = 0
  /\ audioTrack = <<>>
  /\ subtitleTrack = <<>>
  /\ characterTrack = <<>>
  /\ assets = [audio |-> EmptyMap, bgm |-> None]
  /\ sceneTimings = <<>>
  /\ warnings = <<>>
  /\ bgm = BgmInit
  /\ timeline = None

InitRender ==
  /\ CompileAtRest
  /\ render \in { Some([clip |-> c.clip,
                        audioDurationFrames |-> c.audioDurationFrames,
                        rawTalkingIntervals |-> raw,
                        pc |-> "track",
                        duckIntervals |-> <<>>,
                        params |-> None,
                        shouldLoop |-> FALSE,
                        segments |-> <<>>,
                        frame |-> None,
                        duckedGain |-> None,
                        volume |-> None,
                        segmentVolumes |-> <<>>])
                  : c \in RenderClips, raw \in IntervalLists }

UnchangedCompile ==
  UNCHANGED <<script, options, pc, sceneIdx, sceneStartFrame, blockIndex,
              globalBlockIndex, currentFrame, audioTrack, subtitleTrack,
              characterTrack, assets, sceneTimings, warnings, bgm, timeline>>

\* BgmTrack: clip.ducking?.mergeGapFrames ?? 10
mergeGapFramesOf(clip) ==
  IF IsSome(clip.ducking) THEN OrElse(clip.ducking[1].mergeGapFrames, 10) ELSE 10

\* BgmTrack: clip.ducking?.minHoldFrames ?? 18
minHoldFramesOf(clip) ==
  IF IsSome(clip.ducking) THEN OrElse(clip.ducking[1].minHoldFrames, 18) ELSE 18

\* BgmTrack (part_009:521-560): the ducking intervals of the clip
BgmTrackStep(r) ==
  [r EXCEPT !.duckIntervals =
               stabilizeIntervals(r.rawTalkingIntervals, mergeGapFramesOf(r.clip),
                                  minHoldFramesOf(r.clip),
                                  r.clip.start + r.clip.duration),
            !.pc = "clip"]

\* BgmClipComponent (part_009:389-489): params, shouldLoop and the segments
BgmClipStep(r) ==
  LET clip == r.clip
      shouldLoop == /\ OrElse(clip.loop, TRUE)
                    /\ IsSome(r.audioDurationFrames)
                    /\ r.audioDurationFrames[1] > 0
  IN  [r EXCEPT !.params = Some(ClipParams(clip)),
                !.shouldLoop = shouldLoop,
                !.segments =
                   IF shouldLoop
                   THEN generateLoopSegments(clip.duration, r.audioDurationFrames[1],
                          clip.loopStartFrames, clip.loopEndFrames,
                          clip.loopCrossfadeFrames)
                   ELSE <<>>,
                !.pc = "frames"]

\* the frame after the one rendered last
NextFrame(r) == IF IsSome(r.frame) THEN r.frame[1] + 1 ELSE 0

\* the Sequence of a segment is mounted at clip frame f
Playing(segment, f) ==
  segment.clipOffset <= f /\ f < segment.clipOffset + segment.duration

\* one frame of the clip: calculateVolume (part_009:418-468) and, for each
\* segment mounted at that frame, LoopSegmentAudio (part_009:344-365)
RenderFrameStep(r) ==
  TheOne({
    TheOne({
      [r EXCEPT !.frame = Some(NextFrame(r)),
                !.duckedGain = ducked,
                !.volume = Some(volume),
                !.segmentVolumes =
                   [k \in 1..Len(r.segments) |->
                      IF Playing(r.segments[k], NextFrame(r))
                      THEN Some(LoopSegmentAudio(r.segments[k],
                                  NextFrame(r) - r.segments[k].clipOffset, volume))
                      ELSE None]]
      : volume \in {calculateVolume(r.clip, r.params[1],
                                    OrElse(ducked, r.params[1].idleGain),
                                    NextFrame(r))}})
    : ducked \in {DuckingOf(r.clip, r.params[1], r.duckIntervals, NextFrame(r))}})

BgmTrackRender ==
  /\ IsSome(render) /\ render[1].pc = "track"
  /\ render' = Some(BgmTrackStep(render[1]))
  /\ UnchangedCompile

BgmClipRender ==
  /\ IsSome(render) /\ render[1].pc = "clip"
  /\ render' = Some(BgmClipStep(render[1]))
  /\ UnchangedCompile

RenderFrame ==
  /\ IsSome(render) /\ render[1].pc = "frames"
  /\ NextFrame(render[1]) < render[1].clip.duration
  /\ render' = Some(RenderFrameStep(render[1]))
  /\ UnchangedCompile

NextRender ==
  \/ BgmTrackRender
  \/ BgmClipRender
  \/ RenderFrame

SpecRender == InitRender /\ [][NextRender]_vars

(* BgmTrack rendering looped clips *)

MaxClipFrames == 6      \* duration of a looped clip
MaxAudioFrames == 4     \* duration of its asset

\* clips that loop an asset of known duration: every loop window and
\* crossfade length the Timeline schema admits up to the bounds
LoopClips ==
  { [clip |-> [assetId |-> "bgm_1", start |-> 0, duration |-> dc,
               volumeDb |-> Some(-12), volume |-> None,
               maxGainDb |-> None, idleBoostDb |-> None,
               fadeInFrames |-> Some(1), fadeOutFrames |-> Some(1),
               transitionInFrames |-> None, transitionOutFrames |-> None,
               loop |-> Some(TRUE), loopStartFrames |-> ls, loopEndFrames |-> le,
               loopCrossfadeFrames |-> x,
               ducking |-> None],
     audioDurationFrames |-> Some(da)]
    : dc \in 1..MaxClipFrames, da \in 1..MaxAudioFrames,
      ls \in {None} \cup {Some(n) : n \in 0..(MaxAudioFrames + 1)},
      le \in {None} \cup {Some(n) : n \in 0..(MaxAudioFrames + 1)},
      x \in {None} \cup {Some(n) : n \in 0..3} }

InitLoops ==
  /\ CompileAtRest
  /\ render \in { Some([clip |-> c.clip,
                        audioDurationFrames |-> c.audioDurationFrames,
                        rawTalkingIntervals |-> <<>>,
                        pc |-> "track",
                        duckIntervals |-> <<>>,
                        params |-> None,
                        shouldLoop |-> FALSE,
                        segments |-> <<>>,
                        frame |-> None,
                        duckedGain |-> None,
                        volume |-> None,
                        segmentVolumes |-> <<>>])
                  : c \in LoopClips }

SpecLoops == InitLoops /\ [][NextRender]_vars

(* compile given a loudness-gain map, and BgmTrack given an asset that
   carries loudnessGainDb *)

MaxLoudnessScenes == 2  \* scenes of a Script compiled with a loudness-gain map

\* the bgmLoudnessGainDb the pipeline passes to compile: none, a gain for
\* the video's source, gains for both sources
LoudnessMaps ==
  { EmptyMap,
    MapPut(EmptyMap, generateBgmAssetId("a.mp3"), -6),
    MapPut(MapPut(EmptyMap, generateBgmAssetId("a.mp3"), -6),
           generateBgmAssetId("b.mp3"), 6) }

InitLoudness ==
  \/ /\ script \in Scripts({Video(50, Some(VideoBgm("a.mp3", None)))},
                           PlanSceneLists(0, MaxLoudnessScenes,
                             {None, Some([bgm |-> Some([NoBgmConfig EXCEPT
                                                         !.src = Some("b.mp3")])])}))
     /\ options \in {[audioManifest |-> <<Item("s0:0", "audio/001.wav", 25, None)>>,
                      bgmDurationFrames |-> EmptyMap,
                      bgmLoudnessGainDb |-> g] : g \in LoudnessMaps}
     /\ pc = InitialLocals(script).pc
     /\ sceneIdx = 1
     /\ sceneStartFrame = 0
     /\ blockIndex = 0
     /\ globalBlockIndex = 0
     /\ currentFrame = 0
     /\ audioTrack = <<>>
     /\ subtitleTrack = <<>>
     /\ characterTrack = <<>>
     /\ assets = [audio |-> EmptyMap, bgm |-> None]
     /\ sceneTimings = <<>>
     /\ warnings = <<>>
     /\ bgm = BgmInit
     /\ timeline = None
     /\ render = None
  \/ /\ CompileAtRest
     /\ render \in { Some([clip |-> c.clip,
                           audioDurationFrames |-> c.audioDurationFrames,
                           loudnessGainDb |-> g,
                           rawTalkingIntervals |-> <<>>,
                           pc |-> "track",
                           duckIntervals |-> <<>>,
                           params |-> None,
                           shouldLoop |-> FALSE,
                           segments |-> <<>>,
                           frame |-> None,
                           duckedGain |-> None,
                           volume |-> None,
                           segmentVolumes |-> <<>>])
                     : c \in {rc \in RenderClips : rc.clip.ducking = None},
                       g \in {None, Some(-6), Some(6)} }

NextLoudness == Next \/ NextRender

SpecLoudness == InitLoudness /\ [][NextLoudness]_vars

-----------------------------------------------------------------------------
(* What the properties speak about *)

\* the blocks of a Script in (scene order, block order), each with the scene
\* id and the index it has in its scene
RECURSIVE BlocksFrom(_, _)
BlocksFrom(s, i) ==
  IF i > Len(s.scenes) THEN <<>>
  ELSE [j \in 1..Len(s.scenes[i].blocks) |->
          [block |-> s.scenes[i].blocks[j], sceneId |-> s.scenes[i].id,
           blockIndex |-> j - 1]]
       \o BlocksFrom(s, i + 1)

AllBlocks == BlocksFrom(script, 1)

\* the blocks processed so far: one audio clip is pushed per block
Processed == Len(audioTrack)

\* ceil((B.pauseSec ?? video.defaultPauseSec) * fps) of the g-th block
ExpectedPauseFrames(g) ==
  LET b == AllBlocks[g].block
  IN  CeilDiv((IF b.pauseSec = <<>> THEN script.video.defaultPauseSec
               ELSE b.pauseSec[1]) * script.video.fps, 100)

\* the voice frames (durationFrames) of the g-th block: its audio clip
VoiceFrames(g) == audioTrack[g].duration

\* the frame cursor before the g-th block
RECURSIVE CursorBefore(_)
CursorBefore(g) ==
  IF g <= 1 THEN 0
  ELSE CursorBefore(g - 1) + VoiceFrames(g - 1) + ExpectedPauseFrames(g - 1)

Returned == pc = "returned"

\* the clips of the track of the given type in the Timeline returned
ClipsOf(type) ==
  LET t == timeline[1].tracks
      at == {i \in 1..Len(t) : t[i].type = type}
  IN  IF at = {} THEN <<>> ELSE t[CHOOSE i \in at : TRUE].clips

-----------------------------------------------------------------------------
(* C1 *)

\* C1: for every Script that passes Script validation (scenes with an empty
\* blocks list included, with or without video-level BGM and scene BGM
\* overrides) and every audio manifest, compile does not throw and the
\* Timeline it returns passes Timeline validation, so every audio, subtitle,
\* character and BGM clip has an integer start >= 0 and duration > 0.
C1_ValidScriptGivesValidTimeline ==
  scriptSchema(script) =>
    /\ pc # "threw"
    /\ Returned => timelineSchema(timeline[1])

\* a valid Script with video-level BGM whose only scene has no block has
\* been compiled: the Timeline returned has a BGM clip of duration 0
C1_EmptySceneWithBgmReturned ==
  /\ Returned
  /\ scriptSchema(script)
  /\ Len(script.scenes) = 1 /\ script.scenes[1].blocks = <<>>
  /\ IsSome(script.video.bgm)
  /\ Len(ClipsOf("bgm")) = 1 /\ ClipsOf("bgm")[1].duration = 0

-----------------------------------------------------------------------------
(* C2 *)

\* C2: meta.totalFrames equals the frame cursor after the last emitted
\* block, and the cursor equals the sum, over the dialogue blocks processed
\* (all of them once compile has returned), of durationFrames + pauseFrames;
\* it is 0 when no block exists.
C2_TotalFramesIsCursorIsSum ==
  pc # "threw" =>
    /\ currentFrame = CursorBefore(Processed + 1)
    /\ Returned =>
         /\ Processed = Len(AllBlocks)
         /\ timeline[1].meta.totalFrames = currentFrame
         /\ AllBlocks = <<>> => timeline[1].meta.totalFrames = 0

\* compile has returned for two blocks, one of them with a pause
C2_TwoBlocksWithPauseReturned ==
  /\ Returned
  /\ Processed = 2
  /\ ExpectedPauseFrames(1) > 0
  /\ timeline[1].meta.totalFrames
       = VoiceFrames(1) + ExpectedPauseFrames(1)
         + VoiceFrames(2) + ExpectedPauseFrames(2)

-----------------------------------------------------------------------------
(* C3 *)

\* consecutive clips of a track do not overlap / are exactly contiguous
NonOverlapping(clips) ==
  \A i \in 1..(Len(clips) - 1) :
    /\ clips[i].start <= clips[i + 1].start
    /\ clips[i].start + clips[i].duration <= clips[i + 1].start

Contiguous(clips) ==
  \A i \in 1..(Len(clips) - 1) :
    clips[i].start + clips[i].duration = clips[i + 1].start

\* the speakers of the character clips, a block's talk and idle clip counted
\* once: the character clips grouped back into blocks
RECURSIVE TalkSpeakers(_)
TalkSpeakers(clips) ==
  IF clips = <<>> THEN <<>>
  ELSE (IF Head(clips).state.isTalking THEN <<Head(clips).characterId>> ELSE <<>>)
       \o TalkSpeakers(Tail(clips))

\* C3: on the audio, subtitle and character tracks the clips appear in
\* (scene order, block order), the starts are non-decreasing and consecutive
\* clips do not overlap; on the subtitle and character tracks consecutive
\* clips are exactly contiguous.
C3_TracksOrderedAndNonOverlapping ==
  pc # "threw" =>
    /\ \A g \in 1..Processed :
         /\ audioTrack[g].assetId = "audio_" \o ZeroPad(g, 3)
         /\ subtitleTrack[g].text = AllBlocks[g].block.text
    /\ Len(subtitleTrack) = Processed
    /\ TalkSpeakers(characterTrack)
         = [g \in 1..Processed |-> AllBlocks[g].block.speaker]
    /\ NonOverlapping(audioTrack)
    /\ NonOverlapping(subtitleTrack) /\ Contiguous(subtitleTrack)
    /\ NonOverlapping(characterTrack) /\ Contiguous(characterTrack)

\* two blocks with different texts and speakers have been laid out, the
\* first with a pause, so that the audio track has a gap where the subtitle
\* and character tracks have none
C3_TwoDistinctBlocksLaidOut ==
  /\ Returned
  /\ Processed = 2
  /\ AllBlocks[1].block.text # AllBlocks[2].block.text
  /\ AllBlocks[1].block.speaker # AllBlocks[2].block.speaker
  /\ audioTrack[1].start + audioTrack[1].duration < audioTrack[2].start
  /\ Len(characterTrack) >= 3

-----------------------------------------------------------------------------
(* C4 *)

\* the character clips the g-th block is to contribute
ExpectedCharacterClips(g) ==
  LET b == AllBlocks[g].block
      talk == [start |-> CursorBefore(g), duration |-> VoiceFrames(g),
               characterId |-> b.speaker, state |-> [isTalking |-> TRUE]]
      idle == [start |-> CursorBefore(g) + VoiceFrames(g),
               duration |-> ExpectedPauseFrames(g),
               characterId |-> b.speaker, state |-> [isTalking |-> FALSE]]
  IN  IF ExpectedPauseFrames(g) > 0 THEN <<talk, idle>> ELSE <<talk>>

RECURSIVE ExpectedCharacterTrack(_)
ExpectedCharacterTrack(g) ==
  IF g = 0 THEN <<>>
  ELSE ExpectedCharacterTrack(g - 1) \o ExpectedCharacterClips(g)

\* C4: a dialogue block processed at cursor C contributes exactly one audio
\* clip [C, C+durationFrames), one subtitle clip
\* [C, C+durationFrames+pauseFrames), one talking character clip
\* [C, C+durationFrames) and an idle character clip
\* [C+durationFrames, C+durationFrames+pauseFrames) if and only if
\* pauseFrames > 0, with pauseFrames = ceil((pauseSec ?? defaultPauseSec) * fps);
\* an explicit pauseSec of 0 yields no idle clip.
C4_BlockContributesItsClips ==
  pc # "threw" =>
    /\ Len(audioTrack) = Processed /\ Len(subtitleTrack) = Processed
    /\ \A g \in 1..Processed :
         /\ audioTrack[g].start = CursorBefore(g)
         /\ subtitleTrack[g].start = CursorBefore(g)
         /\ subtitleTrack[g].duration = VoiceFrames(g) + ExpectedPauseFrames(g)
    /\ characterTrack = ExpectedCharacterTrack(Processed)

\* a block with an explicit pauseSec of 0 under a positive defaultPauseSec
\* has been processed and contributed its talk clip only
C4_ExplicitZeroPauseProcessed ==
  /\ Returned
  /\ script.video.defaultPauseSec > 0
  /\ Processed = 1
  /\ AllBlocks[1].block.pauseSec = Some(0)
  /\ Len(characterTrack) = 1

-----------------------------------------------------------------------------
(* C5 *)

\* C5: in the Timeline returned every audio clip's assetId is a key of
\* assets.audio and every BGM clip's assetId is a key of assets.bgm;
\* distinct dialogue blocks get distinct audio asset ids (assets.audio has
\* as many entries as there are dialogue blocks) and each audio clip's
\* duration is the durationFrames of the asset it references.
C5_ClipsReferenceAssets ==
  Returned =>
    LET t == timeline[1]
    IN  /\ \A i \in 1..Len(ClipsOf("audio")) :
             /\ ClipsOf("audio")[i].assetId \in DOMAIN t.assets.audio
             /\ ClipsOf("audio")[i].duration
                  = t.assets.audio[ClipsOf("audio")[i].assetId].durationFrames
        /\ \A i \in 1..Len(ClipsOf("bgm")) :
             /\ IsSome(t.assets.bgm)
             /\ ClipsOf("bgm")[i].assetId \in DOMAIN t.assets.bgm[1]
        /\ Cardinality(DOMAIN t.assets.audio) = Len(AllBlocks)
        /\ \A i, j \in 1..Len(ClipsOf("audio")) :
             i # j => ClipsOf("audio")[i].assetId # ClipsOf("audio")[j].assetId

\* a Timeline with two blocks in two scenes, voices of different lengths
\* and two BGM clips of different sources has been returned
C5_TwoScenesTwoSourcesReturned ==
  /\ Returned
  /\ Len(script.scenes) = 2
  /\ Len(ClipsOf("audio")) = 2
  /\ ClipsOf("audio")[1].duration # ClipsOf("audio")[2].duration
  /\ Len(ClipsOf("bgm")) = 2
  /\ ClipsOf("bgm")[1].assetId # ClipsOf("bgm")[2].assetId

-----------------------------------------------------------------------------
(* C6 *)

Finished == pc \in {"returned", "threw"}

\* the manifests that differ from m in the text fields of the entries only
OtherTexts == {"hi", "other"}

Retexted(m) ==
  {[i \in 1..Len(m) |-> [m[i] EXCEPT !.text = t[i]]] :
     t \in [1..Len(m) -> OtherTexts]}

\* what a caller of compile observes: the Timeline, or the error
Outcome(L) == [threw |-> L.pc = "threw", timeline |-> L.timeline]

\* C6: binding is text-independent: for any Script and any two manifests
\* identical except for the text fields of their entries, compile returns
\* the same Timeline.
C6_ManifestTextIsNeverRead ==
  Finished =>
    \A m \in Retexted(options.audioManifest) :
      Outcome(compile(script, [options EXCEPT !.audioManifest = m]))
        = Outcome(Locals)

\* a block has been bound to the second of two entries whose key it names,
\* and the manifest has an entry of which a retexted twin exists
C6_BoundBlockReturned ==
  /\ Returned
  /\ Processed >= 1
  /\ Len(options.audioManifest) >= 2
  /\ IsSome(AllBlocks[1].block.audioKey)
  /\ \E i \in 2..Len(options.audioManifest) :
       /\ options.audioManifest[i].audioKey = AllBlocks[1].block.audioKey[1]
       /\ assets.audio["audio_001"].src = options.audioManifest[i].audioSrc
  /\ Cardinality(Retexted(options.audioManifest)) >= 4

-----------------------------------------------------------------------------
(* C7 *)

Reorderings(m) ==
  {[i \in 1..Len(m) |-> m[p[i]]] :
     p \in {q \in [1..Len(m) -> 1..Len(m)] :
              \A i, j \in 1..Len(m) : i # j => q[i] # q[j]}}

DistinctAudioKeys(m) ==
  \A i, j \in 1..Len(m) : i # j => m[i].audioKey # m[j].audioKey

\* every block's fileName, when given and not empty, matches at most one
\* entry of the manifest
FileNamesUnambiguous(s, m) ==
  \A g \in 1..Len(BlocksFrom(s, 1)) :
    LET b == BlocksFrom(s, 1)[g].block
    IN  (IsSome(b.fileName) /\ b.fileName[1] # "") =>
          Cardinality({i \in 1..Len(m) : MatchesFileName(m[i], b.fileName[1])}) <= 1

SameForEveryPermutation ==
  \A m \in Reorderings(options.audioManifest) :
    Outcome(compile(script, [options EXCEPT !.audioManifest = m]))
      = Outcome(Locals)

\* C7, as stated: for any Script (blocks may carry audioKey and/or fileName)
\* and any manifest with pairwise distinct audioKeys, compile returns the
\* same Timeline for every permutation of the manifest entries.
C7_OrderIndependentGivenDistinctKeys ==
  (Finished /\ DistinctAudioKeys(options.audioManifest))
    => SameForEveryPermutation

\* C7, amended: for any Script and any manifest with pairwise distinct
\* audioKeys in which every block's fileName matches at most one entry,
\* compile returns the same Timeline for every permutation of the manifest.
C7_OrderIndependentGivenUnambiguousFileNames ==
  (/\ Finished
   /\ DistinctAudioKeys(options.audioManifest)
   /\ FileNamesUnambiguous(script, options.audioManifest))
    => SameForEveryPermutation

\* a block bound through its fileName and a block bound through its
\* audioKey have been compiled against a two-entry manifest with distinct
\* keys, the key-bound entry standing first
C7_FileNameAndKeyBoundReturned ==
  /\ Returned
  /\ Len(options.audioManifest) = 2
  /\ DistinctAudioKeys(options.audioManifest)
  /\ FileNamesUnambiguous(script, options.audioManifest)
  /\ Processed = 2
  /\ AllBlocks[1].block.fileName = Some("f.wav")
  /\ assets.audio["audio_001"].src = "audio/003.wav"
  /\ AllBlocks[2].block.audioKey = Some("k")
  /\ AllBlocks[2].block.fileName = None
  /\ options.audioManifest[1].audioKey = "k"
  /\ assets.audio["audio_002"].src = options.audioManifest[1].audioSrc

-----------------------------------------------------------------------------
(* C8 *)

\* the g-th block has no bound manifest entry, or one of duration <= 0
Unbound(g) ==
  LET e == AllBlocks[g]
      item == findAudioInManifest(e.block, options.audioManifest,
                                  generateAudioKey(e.sceneId, e.blockIndex))
  IN  ~IsSome(item) \/ item[1].durationInSeconds <= 0

\* the frame cursor after the g-th block
CursorAfter(g) ==
  IF g < Processed THEN audioTrack[g + 1].start ELSE currentFrame

OnlyDialogueBlocks ==
  \A g \in 1..Len(AllBlocks) : AllBlocks[g].block.type = "dialogue"

\* C8: when a dialogue block has no bound manifest entry, or its bound entry
\* has durationInSeconds <= 0, compile does not fail: the block's audio
\* asset gets durationFrames = 2 * fps and src = "audio/" + zeroPad(G+1, 3)
\* + ".wav", the block still emits its audio, subtitle and character clips,
\* and the cursor advances by 2 * fps + pauseFrames.
C8_UnboundBlockFallsBack ==
  /\ OnlyDialogueBlocks => pc # "threw"
  /\ pc # "threw" =>
       \A g \in 1..Processed :
         Unbound(g) =>
           LET fps == script.video.fps
               at == audioTrack[g].start
           IN  /\ assets.audio["audio_" \o ZeroPad(g, 3)]
                    = [src |-> "audio/" \o ZeroPad(g, 3) \o ".wav",
                       durationFrames |-> 2 * fps]
               /\ audioTrack[g].duration = 2 * fps
               /\ subtitleTrack[g].start = at
               /\ subtitleTrack[g].duration = 2 * fps + ExpectedPauseFrames(g)
               /\ \E c \in 1..Len(characterTrack) :
                    /\ characterTrack[c].start = at
                    /\ characterTrack[c].duration = 2 * fps
                    /\ characterTrack[c].state.isTalking
               /\ CursorAfter(g) = at + 2 * fps + ExpectedPauseFrames(g)

\* a block bound to an entry of duration 0 and, after it, a block with no
\* entry at all have fallen back, and a Timeline has been returned
C8_TwoFallbacksReturned ==
  /\ Returned
  /\ Processed = 2
  /\ Unbound(1) /\ Unbound(2)
  /\ IsSome(findAudioInManifest(AllBlocks[1].block, options.audioManifest,
                                generateAudioKey(AllBlocks[1].sceneId,
                                                 AllBlocks[1].blockIndex)))
  /\ ~IsSome(findAudioInManifest(AllBlocks[2].block, options.audioManifest,
                                 generateAudioKey(AllBlocks[2].sceneId,
                                                  AllBlocks[2].blockIndex)))
  /\ assets.audio["audio_002"].src = "audio/002.wav"
  /\ audioTrack[2].start = 60 + ExpectedPauseFrames(1)

-----------------------------------------------------------------------------
(* C9 *)

\* C9: a block whose type is not "dialogue" makes compile fail with a fatal
\* error and return no Timeline; compile never skips such a block while
\* still returning a Timeline: reaching the block throws, a Timeline is
\* returned only when every block is a dialogue block and has been
\* accumulated, and compile keeps stepping until it returns or throws.
C9_UnknownBlockTypeIsFatal ==
  /\ (CanProcessBlock(Locals, script)
      /\ script.scenes[sceneIdx].blocks[blockIndex + 1].type # "dialogue")
       => BlockStep(Locals, script, options).pc = "threw"
  /\ pc = "threw" => timeline = None /\ ~OnlyDialogueBlocks
  /\ Returned => OnlyDialogueBlocks /\ Processed = Len(AllBlocks)
  /\ pc # "threw" => Processed = globalBlockIndex
  /\ ~Finished =>
       \/ CanProcessBlock(Locals, script) \/ CanEndScene(Locals, script)
       \/ CanBgmNoScenes(Locals) \/ CanBgmScene(Locals)
       \/ CanBgmReturn(Locals) \/ CanAssemble(Locals)

\* compile has thrown at a non-dialogue block that follows a dialogue block
C9_ThrewAfterADialogueBlock ==
  /\ pc = "threw"
  /\ Processed = 1
  /\ Len(AllBlocks) = 2
  /\ AllBlocks[2].block.type # "dialogue"
  /\ timeline = None
  /\ render = None

-----------------------------------------------------------------------------
(* C10 *)

\* C10: compile never returns a Timeline that fails Timeline validation:
\* whatever the Script, a Timeline that has been returned passes
\* parseTimeline (an invalid one is reported as InvalidTimelineEmission).
C10_NoInvalidTimelineReturned ==
  ~(Returned /\ ~timelineSchema(timeline[1]))

\* a Timeline that fails Timeline validation has been returned for a valid
\* Script whose second scene is empty and overrides a BGM setting
C10_InvalidTimelineReturned ==
  /\ Returned
  /\ scriptSchema(script)
  /\ Len(script.scenes) = 2
  /\ script.scenes[1].blocks # <<>> /\ script.scenes[2].blocks = <<>>
  /\ ~timelineSchema(timeline[1])
  /\ \E i \in 1..Len(ClipsOf("bgm")) : ClipsOf("bgm")[i].duration = 0

-----------------------------------------------------------------------------
(* C11 *)

\* the clips of the BGM track returned
BgmClips == ClipsOf("bgm")

\* audioOffsetFrames of a clip, an absent field counting as 0
OffsetOf(c) == IF c.audioOffsetFrames = <<>> THEN 0 ELSE c.audioOffsetFrames[1]

\* the sum of the durations of the clips of asset id emitted before clip i
RECURSIVE PriorDuration(_, _, _)
PriorDuration(clips, i, id) ==
  IF i <= 1 THEN 0
  ELSE PriorDuration(clips, i - 1, id)
       + (IF clips[i - 1].assetId = id THEN clips[i - 1].duration ELSE 0)

\* the asset's duration from the duration map (optional)
KnownDuration(id) ==
  IF id \in DOMAIN options.bgmDurationFrames
  THEN <<options.bgmDurationFrames[id]>> ELSE <<>>

\* C11: for any two adjacent clips of the emitted BGM track with the same
\* assetId, the second clip's audioOffsetFrames (absent = 0) is
\* wrapPlaybackPosition of the sum of the durations of all previously
\* emitted clips of that asset, with the asset's duration from the duration
\* map and the loop flag and loop window of the second clip; when the
\* duration is unknown the offset is the unwrapped sum.
C11_OffsetIsWrappedAccumulatedDuration ==
  Returned =>
    \A i \in 2..Len(BgmClips) :
      BgmClips[i].assetId = BgmClips[i - 1].assetId =>
        LET c == BgmClips[i]
            total == PriorDuration(BgmClips, i, c.assetId)
        IN  /\ OffsetOf(c) = wrapPlaybackPosition(total, KnownDuration(c.assetId),
                               c.loopStartFrames, c.loopEndFrames, c.loop)
            /\ KnownDuration(c.assetId) = <<>> => OffsetOf(c) = total

\* a track a, b, a, a has been returned, the duration of a known: the
\* fourth clip continues a after two earlier runs, at a wrapped offset
C11_ResumedAfterAnotherAssetReturned ==
  /\ Returned
  /\ Len(BgmClips) = 4
  /\ BgmClips[1].assetId = BgmClips[3].assetId
  /\ BgmClips[2].assetId # BgmClips[1].assetId
  /\ BgmClips[4].assetId = BgmClips[3].assetId
  /\ KnownDuration(BgmClips[4].assetId) # <<>>
  /\ PriorDuration(BgmClips, 4, BgmClips[4].assetId) > OffsetOf(BgmClips[4])
  /\ OffsetOf(BgmClips[4]) > 0

-----------------------------------------------------------------------------
(* C12 *)

\* where the run of clip i left off: the audio position at which the clip
\* started playing plus its duration, wrapped for the clip that follows
RunLeftOffAt(clips, i) ==
  wrapPlaybackPosition(OffsetOf(clips[i]) + clips[i].duration,
                       KnownDuration(clips[i].assetId),
                       clips[i + 1].loopStartFrames, clips[i + 1].loopEndFrames,
                       clips[i + 1].loop)

\* C12: for any two consecutive BGM clips that reference the same asset, the
\* second clip's audioOffsetFrames is the wrapped position at which the
\* preceding clip left off (the audio position at which the preceding clip
\* started playing plus its duration), for every scene sequence.
C12_OffsetContinuesThePrecedingClip ==
  Returned =>
    \A i \in 1..(Len(BgmClips) - 1) :
      BgmClips[i + 1].assetId = BgmClips[i].assetId =>
        OffsetOf(BgmClips[i + 1]) = RunLeftOffAt(BgmClips, i)

\* a track a, b, a, a has been returned: the third clip restarted a at
\* offset 0, and the fourth clip does not start where the third left off
C12_RestartedRunIsNotContinued ==
  /\ Returned
  /\ Len(BgmClips) = 4
  /\ BgmClips[1].assetId = BgmClips[3].assetId
  /\ BgmClips[2].assetId # BgmClips[1].assetId
  /\ BgmClips[4].assetId = BgmClips[3].assetId
  /\ OffsetOf(BgmClips[3]) = 0
  /\ OffsetOf(BgmClips[4]) # RunLeftOffAt(BgmClips, 3)

-----------------------------------------------------------------------------
(* C13 *)

\* the BGM override of scene i of the Script (optional)
OverrideOf(i) ==
  IF script.scenes[i].style = <<>> THEN <<>> ELSE script.scenes[i].style[1].bgm

\* the resolved src of scene i
SceneSrc(i) == resolveBgmConfig(script.video.bgm[1], OverrideOf(i)).src

\* scene i > 1 resolves to another src than the scene before it, whose
\* config is that of the clip open when scene i is planned
SrcChangesAt(i) == i \in 2..Len(script.scenes) /\ SceneSrc(i) # SceneSrc(i - 1)

\* T of scene i: max(1, ceil(transitionSec * fps)), transitionSec the scene
\* override's or 1.0
TransitionOf(i) ==
  LET transitionSec == IF OverrideOf(i) # <<>> /\ OverrideOf(i)[1].transitionSec # <<>>
                       THEN OverrideOf(i)[1].transitionSec[1] ELSE 100
      frames == (transitionSec * script.video.fps + 99) \div 100
  IN  IF frames > 1 THEN frames ELSE 1

-----------------------------------------------------------------------------
(* C14 *)

\* C14: generateBgmAssetId is injective on the sources of a Script: any two
\* scenes whose resolved src strings differ have different asset ids, so
\* the planner never treats two different sources as one asset.
C14_DistinctSourcesHaveDistinctAssetIds ==
  script.video.bgm # <<>> =>
    \A i, j \in 1..Len(script.scenes) :
      SceneSrc(i) # SceneSrc(j) =>
        generateBgmAssetId(SceneSrc(i)) # generateBgmAssetId(SceneSrc(j))

\* a track has been returned for two scenes of different sources in which
\* both clips reference one asset: no crossfade was planned, the second clip
\* continues the first, and the asset table has the first source only
C14_TwoSourcesOneAssetReturned ==
  /\ Returned
  /\ Len(script.scenes) = 2
  /\ SceneSrc(1) # SceneSrc(2)
  /\ Len(BgmClips) = 2
  /\ BgmClips[1].assetId = BgmClips[2].assetId
  /\ BgmClips[1].transitionOutFrames = <<>>
  /\ BgmClips[2].transitionInFrames = <<>>
  /\ BgmClips[1].duration > 0
  /\ OffsetOf(BgmClips[2]) = BgmClips[1].duration
  /\ DOMAIN timeline[1].assets.bgm[1] = {BgmClips[1].assetId}
  /\ timeline[1].assets.bgm[1][BgmClips[1].assetId].src = SceneSrc(1)

-----------------------------------------------------------------------------
(* C15, C16 *)

\* BgmTrack has computed the ducking intervals of the clip
Stabilized == IsSome(render) /\ render[1].pc # "track"

\* maxEndFrame of the clip rendered
MaxEndFrame == render[1].clip.start + render[1].clip.duration

\* C15: interval stabilization is idempotent: stabilizeIntervals applied to
\* its own result, with the same mergeGapFrames >= 0, minHoldFrames >= 0
\* and maxEndFrame, returns that result.
C15_StabilizeIsIdempotent ==
  Stabilized =>
    stabilizeIntervals(render[1].duckIntervals, mergeGapFramesOf(render[1].clip),
                       minHoldFramesOf(render[1].clip), MaxEndFrame)
      = render[1].duckIntervals

\* two intervals given out of order have been stabilized into two intervals
\* with the first one held longer than it was
C15_UnsortedHeldStabilized ==
  /\ Stabilized
  /\ Len(render[1].rawTalkingIntervals) = 2
  /\ render[1].rawTalkingIntervals[1].start > render[1].rawTalkingIntervals[2].start
  /\ minHoldFramesOf(render[1].clip) > 0
  /\ Len(render[1].duckIntervals) = 2
  /\ render[1].duckIntervals[1].end > render[1].rawTalkingIntervals[2].end

\* C16: the result of stabilizeIntervals is sorted by start, any later
\* interval starts more than mergeGapFrames after an earlier one ends, and
\* every interval [s, e) has e >= min(maxEndFrame, s + minHoldFrames).
C16_StabilizedIsSortedDisjointHeld ==
  Stabilized =>
    LET D == render[1].duckIntervals
    IN  /\ \A i, j \in 1..Len(D) :
             i < j => /\ D[i].start <= D[j].start
                      /\ D[j].start > D[i].end + mergeGapFramesOf(render[1].clip)
        /\ \A i \in 1..Len(D) :
             \/ D[i].end >= MaxEndFrame
             \/ D[i].end >= D[i].start + minHoldFramesOf(render[1].clip)

\* two intervals given out of order have been stabilized into two intervals
\* that lie one frame more than a positive mergeGapFrames apart
C16_BarelySeparateStabilized ==
  /\ Stabilized
  /\ Len(render[1].rawTalkingIntervals) = 2
  /\ mergeGapFramesOf(render[1].clip) > 0
  /\ Len(render[1].duckIntervals) = 2
  /\ render[1].rawTalkingIntervals[1].start > render[1].duckIntervals[1].start
  /\ render[1].duckIntervals[2].start
       = render[1].duckIntervals[1].end + mergeGapFramesOf(render[1].clip) + 1

-----------------------------------------------------------------------------
(* C17 *)

\* a frame of the clip has been rendered
FrameRendered == IsSome(render) /\ IsSome(render[1].frame)

\* |a - b| <= c
Within(a, b, c) == Leq(Sub(a, b), c) /\ Leq(Sub(b, a), c)

\* C17: for consecutive loop segments with effective crossfade x' > 0, at
\* every clip frame where both are playing, the fade-out multiplier of the
\* outgoing segment plus the fade-in multiplier of the incoming segment
\* differs from 1 by at most 1/x'.
C17_CrossfadeMultipliersSumToOne ==
  FrameRendered =>
    LET segs == render[1].segments
        f == render[1].frame[1]
    IN  \A k \in 1..(Len(segs) - 1) :
          segs[k].fadeOutFrames > 0 /\ Playing(segs[k], f) /\ Playing(segs[k + 1], f) =>
            Within(Add(segmentFadeOutMul(segs[k], f - segs[k].clipOffset),
                       segmentFadeInMul(segs[k + 1], f - segs[k + 1].clipOffset)),
                   Whole(1), Frac(1, segs[k].fadeOutFrames))

\* a frame in the middle of a two-frame crossfade has been rendered: both
\* segments play, each at half
C17_MidCrossfadeRendered ==
  /\ FrameRendered
  /\ Len(render[1].segments) >= 2
  /\ render[1].segments[1].fadeOutFrames = 2
  /\ Playing(render[1].segments[1], render[1].frame[1])
  /\ Playing(render[1].segments[2], render[1].frame[1])
  /\ segmentFadeInMul(render[1].segments[2],
                      render[1].frame[1] - render[1].segments[2].clipOffset)
       = Frac(1, 2)
  /\ render[1].segmentVolumes[1] = render[1].segmentVolumes[2]
  /\ render[1].segmentVolumes[1] # None

-----------------------------------------------------------------------------
(* C18 *)

\* dbToGain(clamp(maxGainDb ?? -3, -60, 6)) of the clip rendered
MaxGainOfClip ==
  LET db == IF render[1].clip.maxGainDb = <<>> THEN -3 ELSE render[1].clip.maxGainDb[1]
  IN  dbToGain(IF db < -60 THEN -60 ELSE IF db > 6 THEN 6 ELSE db)

InRange(v) == Leq(Whole(0), v) /\ Leq(v, MaxGainOfClip)

\* C18: at every local frame of the clip, for every list of ducking
\* intervals, the volume of the envelope, and the volume of every loop
\* segment playing at that frame (crossfade multiplier included), lies in
\* [0, maxGain].
C18_VolumeWithinMaxGain ==
  FrameRendered =>
    /\ InRange(render[1].volume[1])
    /\ \A k \in 1..Len(render[1].segmentVolumes) :
         render[1].segmentVolumes[k] # <<>> => InRange(render[1].segmentVolumes[k][1])

\* a frame has been rendered at which the idle gain exceeds maxGain, so that
\* the envelope is clamped to maxGain, and a crossfading segment plays below
\* it
C18_ClampedFrameRendered ==
  /\ FrameRendered
  /\ Less(MaxGainOfClip, render[1].params[1].idleGain)
  /\ render[1].volume[1] = MaxGainOfClip
  /\ \E k \in 1..Len(render[1].segmentVolumes) :
       /\ render[1].segmentVolumes[k] # <<>>
       /\ Less(Whole(0), render[1].segmentVolumes[k][1])
       /\ Less(render[1].segmentVolumes[k][1], MaxGainOfClip)

-----------------------------------------------------------------------------
(* C19 *)

\* the stabilized intervals, and the global frame of local frame f
DuckList == render[1].duckIntervals
GlobalFrame(f) == render[1].clip.start + f

\* frame g lies outside every ducking interval
Outside(g) ==
  \A i \in 1..Len(DuckList) : ~(DuckList[i].start <= g /\ g < DuckList[i].end)

\* the intervals that start after g, and the nearest of them
Upcoming(g) == {i \in 1..Len(DuckList) : DuckList[i].start > g}
NextInterval(g) ==
  CHOOSE i \in Upcoming(g) : \A j \in Upcoming(g) : DuckList[i].start <= DuckList[j].start

\* the intervals that ended at or before g, and the latest of them
Ended(g) == {i \in 1..Len(DuckList) : DuckList[i].end <= g}
LastInterval(g) ==
  CHOOSE i \in Ended(g) : \A j \in Ended(g) : DuckList[i].end >= DuckList[j].end

AttackLength == IF render[1].params[1].attackFrames > 1
                THEN render[1].params[1].attackFrames ELSE 1
ReleaseLength == IF render[1].params[1].releaseFrames > 1
                 THEN render[1].params[1].releaseFrames ELSE 1

\* g is in the attack window of interval i
InAttackOf(g, i) ==
  /\ Outside(g)
  /\ Upcoming(g) # {}
  /\ i = NextInterval(g)
  /\ DuckList[i].start - g <= AttackLength

\* g is in the release window of interval i
InReleaseOf(g, i) ==
  /\ Outside(g)
  /\ Ended(g) # {}
  /\ i = LastInterval(g)
  /\ g - DuckList[i].end < ReleaseLength
  /\ \A j \in Upcoming(g) : DuckList[j].start - g > AttackLength

\* |a - b|
Distance(a, b) == IF Leq(a, b) THEN Sub(b, a) ELSE Sub(a, b)

\* the ducked gain of the frame rendered
GainNow == render[1].duckedGain[1]
IdleGain == render[1].params[1].idleGain
TalkGain == render[1].params[1].talkGain

\* calculateDuckedGain gave the gain of local frame f, rendered last
DuckedAt(f) ==
  IsSome(render) /\ render[1].frame = <<f>> /\ render[1].duckedGain # <<>>

\* the ramps start where the claim says: idleGain at the far end of the
\* attack window, talkGain at the interval's end
RampsStartRight ==
  \A f \in 0..(render[1].clip.duration - 1) :
    DuckedAt(f) =>
      \A i \in 1..Len(DuckList) :
        /\ InAttackOf(GlobalFrame(f), i)
             /\ DuckList[i].start - GlobalFrame(f) = AttackLength
             => GainNow = IdleGain
        /\ InReleaseOf(GlobalFrame(f), i) /\ GlobalFrame(f) = DuckList[i].end
             => GainNow = TalkGain

\* from frame f to frame f + 1, both in the attack window of one interval,
\* the gain does not move away from talkGain; both in the release window of
\* one interval, it does not move away from idleGain
RampsAreMonotone ==
  \A f \in 0..(render[1].clip.duration - 2) :
    DuckedAt(f) /\ render'[1].frame = <<f + 1>> /\ render'[1].duckedGain # <<>> =>
      \A i \in 1..Len(DuckList) :
        /\ InAttackOf(GlobalFrame(f), i) /\ InAttackOf(GlobalFrame(f + 1), i)
             => Leq(Distance(render'[1].duckedGain[1], TalkGain),
                    Distance(GainNow, TalkGain))
        /\ InReleaseOf(GlobalFrame(f), i) /\ InReleaseOf(GlobalFrame(f + 1), i)
             => Leq(Distance(render'[1].duckedGain[1], IdleGain),
                    Distance(GainNow, IdleGain))

\* C19: over consecutive frames f, f+1 in the attack window of one ducking
\* interval the ducked gain at f+1 is at least as close to talkGain as at f,
\* starting from idleGain at distance max(1, attackFrames); over consecutive
\* frames in the release window after an interval's end (no upcoming
\* interval within the attack distance) the gain at f+1 is at least as close
\* to idleGain as at f, starting from talkGain at the interval's end.
C19_AttackAndReleaseAreMonotone ==
  [][IsSome(render) /\ IsSome(render[1].params) => RampsStartRight /\ RampsAreMonotone]_vars

\* the second frame of a three-frame release has been rendered: the gain
\* lies strictly between talkGain and idleGain
C19_MidReleaseRendered ==
  /\ FrameRendered
  /\ render[1].duckedGain # <<>>
  /\ ReleaseLength = 3
  /\ \E i \in 1..Len(DuckList) :
       /\ InReleaseOf(GlobalFrame(render[1].frame[1]), i)
       /\ GlobalFrame(render[1].frame[1]) = DuckList[i].end + 1
  /\ Less(TalkGain, GainNow)
  /\ Less(GainNow, IdleGain)

-----------------------------------------------------------------------------
(* C20 *)

\* the first value written, from the right: the scene override's, else
\* video.bgm's, else the preset's, else the global default (each optional)
ByPrecedence(sceneValue, videoValue, presetValue, default) ==
  IF sceneValue # <<>> THEN sceneValue
  ELSE IF videoValue # <<>> THEN videoValue
  ELSE IF presetValue # <<>> THEN presetValue
  ELSE default

\* the ducking object of a written config, no field written when it is absent
WrittenDucking(c) ==
  IF c = <<>> \/ c[1].ducking = <<>> THEN NoDucking ELSE c[1].ducking[1]

\* the fields of a written config, none written when the override is absent
WrittenFields(c) == IF c = <<>> THEN NoFields ELSE c[1]

\* the fields of the named preset of scene i of the written Script
PresetOf(w, i) ==
  LET name == IF w.scenes[i] # <<>> /\ w.scenes[i][1].preset # <<>>
              THEN w.scenes[i][1].preset ELSE w.bgm.preset
  IN  IF name # <<>> /\ name[1] \in DOMAIN BGM_PRESETS
      THEN BGM_PRESETS[name[1]] ELSE NoFields

\* the config the precedence rule gives scene i of the written Script
ExpectedConfig(w, i) ==
  LET sc == WrittenFields(w.scenes[i])
      vd == w.bgm
      pr == PresetOf(w, i)
      scD == WrittenDucking(w.scenes[i])
      vdD == WrittenDucking(<<w.bgm>>)
      prD == WrittenDucking(<<pr>>)
  IN  [volumeDb |-> ByPrecedence(sc.volumeDb, vd.volumeDb, pr.volumeDb, <<-12>>),
       maxGainDb |-> ByPrecedence(sc.maxGainDb, vd.maxGainDb, pr.maxGainDb, <<-3>>),
       fadeInSec |-> ByPrecedence(sc.fadeInSec, vd.fadeInSec, pr.fadeInSec, <<100>>),
       fadeOutSec |-> ByPrecedence(sc.fadeOutSec, vd.fadeOutSec, pr.fadeOutSec, <<100>>),
       loop |-> ByPrecedence(sc.loop, vd.loop, pr.loop, <<TRUE>>),
       loopStartSec |-> ByPrecedence(sc.loopStartSec, vd.loopStartSec,
                                     pr.loopStartSec, <<>>),
       loopEndSec |-> ByPrecedence(sc.loopEndSec, vd.loopEndSec, pr.loopEndSec, <<>>),
       loopCrossfadeSec |-> ByPrecedence(sc.loopCrossfadeSec, vd.loopCrossfadeSec,
                                         pr.loopCrossfadeSec, <<25>>),
       idleBoostDb |-> ByPrecedence(sc.idleBoostDb, vd.idleBoostDb, pr.idleBoostDb, <<3>>),
       ducking |->
         [enabled |-> ByPrecedence(scD.enabled, vdD.enabled, prD.enabled, <<TRUE>>),
          duckDeltaDb |-> ByPrecedence(scD.duckDeltaDb, vdD.duckDeltaDb,
                                       prD.duckDeltaDb, <<-8>>),
          attackSec |-> ByPrecedence(scD.attackSec, vdD.attackSec, prD.attackSec, <<10>>),
          releaseSec |-> ByPrecedence(scD.releaseSec, vdD.releaseSec,
                                      prD.releaseSec, <<25>>),
          mergeGapSec |-> ByPrecedence(scD.mergeGapSec, vdD.mergeGapSec,
                                       prD.mergeGapSec, <<35>>),
          minHoldSec |-> ByPrecedence(scD.minHoldSec, vdD.minHoldSec,
                                      prD.minHoldSec, <<60>>)]]

\* the config resolveBgmConfig gives scene i of the parsed Script, its
\* fields made optional values
ResolvedConfig(i) ==
  LET c == resolveBgmConfig(script.video.bgm[1], OverrideOf(i))
  IN  [volumeDb |-> <<c.volumeDb>>, maxGainDb |-> <<c.maxGainDb>>,
       fadeInSec |-> <<c.fadeInSec>>, fadeOutSec |-> <<c.fadeOutSec>>,
       loop |-> <<c.loop>>, loopStartSec |-> c.loopStartSec,
       loopEndSec |-> c.loopEndSec, loopCrossfadeSec |-> <<c.loopCrossfadeSec>>,
       idleBoostDb |-> <<c.idleBoostDb>>,
       ducking |-> [enabled |-> <<c.ducking.enabled>>,
                    duckDeltaDb |-> <<c.ducking.duckDeltaDb>>,
                    attackSec |-> <<c.ducking.attackSec>>,
                    releaseSec |-> <<c.ducking.releaseSec>>,
                    mergeGapSec |-> <<c.ducking.mergeGapSec>>,
                    minHoldSec |-> <<c.ducking.minHoldSec>>]]

\* C20: for a Script that passed validation, every field of the resolved
\* BGM config of every scene is the scene override's value if the author
\* wrote it there, else video.bgm's if the author wrote it there, else the
\* named preset's if the preset defines it, else the global default.
C20_ResolvedFieldsFollowWhatWasWritten ==
  \A w \in WrittenScripts :
    parseScript(w) = script =>
      \A i \in 1..Len(script.scenes) : ResolvedConfig(i) = ExpectedConfig(w, i)

\* the Timeline of a Script written with video.bgm = {src, preset: "calm"}
\* and one scene without override has been returned: its clip carries
\* maxGainDb -3, not calm's -6, and calm's attack of 0.15 s (5 frames)
C20_CalmClipWithDefaultMaxGainReturned ==
  /\ Returned
  /\ \E w \in WrittenScripts :
       /\ parseScript(w) = script
       /\ w.bgm.preset = <<"calm">>
       /\ w.bgm.maxGainDb = <<>>
       /\ w.scenes = << <<>> >>
  /\ Len(BgmClips) = 1
  /\ BgmClips[1].maxGainDb = -3
  /\ BgmClips[1].ducking.attackFrames = 5

-----------------------------------------------------------------------------
(* C21 *)

\* the resolved config of scene i of the Script
SceneConfig(i) == resolveBgmConfig(script.video.bgm[1], OverrideOf(i))

\* the scene at whose start clip k of the track starts
SceneOfClip(k) ==
  CHOOSE i \in 1..Len(script.scenes) : sceneTimings[i].startFrame = BgmClips[k].start

\* max(1, ceil(sec * fps))
FadeFrames(sec) ==
  LET frames == (sec * script.video.fps + 99) \div 100
  IN  IF frames > 1 THEN frames ELSE 1

\* C21: in the emitted BGM track the first clip has fadeInFrames =
\* max(1, ceil(fadeInSec * fps)) and the last clip has fadeOutFrames =
\* max(1, ceil(fadeOutSec * fps)) of its resolved config; every other clip
\* has fadeInFrames = 1 and every clip other than the last has
\* fadeOutFrames = 1.
C21_OnlyFirstFadesInOnlyLastFadesOut ==
  Returned /\ script.video.bgm # <<>> =>
    \A k \in 1..Len(BgmClips) :
      LET config == IF Len(script.scenes) = 0
                    THEN resolveBgmConfig(script.video.bgm[1], <<>>)
                    ELSE SceneConfig(SceneOfClip(k))
      IN  /\ BgmClips[k].fadeInFrames =
               (IF k = 1 THEN FadeFrames(config.fadeInSec) ELSE 1)
          /\ BgmClips[k].fadeOutFrames =
               (IF k = Len(BgmClips) THEN FadeFrames(config.fadeOutSec) ELSE 1)

\* a track of two clips has been returned whose last clip was opened by the
\* second scene with a fade-out of 2 s and extended by the third, the last
C21_LastSceneExtendedTheLastClipReturned ==
  /\ Returned
  /\ Len(script.scenes) = 3
  /\ Len(BgmClips) = 2
  /\ BgmClips[2].start = sceneTimings[2].startFrame
  /\ BgmClips[1].fadeInFrames = 30 /\ BgmClips[1].fadeOutFrames = 1
  /\ BgmClips[2].fadeInFrames = 1 /\ BgmClips[2].fadeOutFrames = 60

-----------------------------------------------------------------------------
(* C22 *)

\* the scenes after the first whose resolved config differs from that of
\* the scene before
Splits ==
  {i \in 2..Len(script.scenes) : SceneConfig(i) # SceneConfig(i - 1)}

\* the last scene of the run of equal keys that starts at scene r
RunEnd(r) ==
  CHOOSE e \in r..Len(script.scenes) :
    /\ \A j \in (r + 1)..e : j \notin Splits
    /\ e = Len(script.scenes) \/ (e + 1) \in Splits

\* the override of scene i sets transitionSec and nothing else
OnlyTransition(i) ==
  /\ OverrideOf(i) # <<>>
  /\ OverrideOf(i)[1].transitionSec # <<>>
  /\ [OverrideOf(i)[1] EXCEPT !.transitionSec = <<>>] = NoBgmConfig

\* C22: the number of BGM clips is 1 plus the number of scenes i >= 1 whose
\* resolved config differs from that of scene i-1; each maximal run of
\* scenes of one resolved config yields one clip that starts at the
\* start of the run's first scene and covers up to the end of its last
\* scene (ending there unless a source change follows); a scene override
\* that sets only transitionSec opens no clip.
C22_ClipsSplitOnlyOnConfigChange ==
  Returned /\ script.video.bgm # <<>> =>
    /\ Len(BgmClips) = 1 + Cardinality(Splits)
    /\ \A r \in 1..Len(script.scenes) :
         r = 1 \/ r \in Splits =>
           \E k \in 1..Len(BgmClips) :
             LET c == BgmClips[k]
                 e == RunEnd(r)
             IN  /\ c.start = sceneTimings[r].startFrame
                 /\ c.start + c.duration >= sceneTimings[e].endFrame
                 /\ ~SrcChangesAt(e + 1) =>
                      c.start + c.duration = sceneTimings[e].endFrame
    /\ \A i \in 2..Len(script.scenes) :
         OnlyTransition(i) /\ (OverrideOf(i - 1) = <<>> \/ OnlyTransition(i - 1)) =>
           \A k \in 1..Len(BgmClips) : BgmClips[k].start # sceneTimings[i].startFrame

\* a track of two clips has been returned for three scenes: the second
\* scene sets only transitionSec and extends the first clip, the third
\* changes the fades and opens the second
C22_TransitionOnlySceneExtendedReturned ==
  /\ Returned
  /\ Len(script.scenes) = 3
  /\ OverrideOf(1) = <<>>
  /\ OnlyTransition(2)
  /\ Splits = {3}
  /\ Len(BgmClips) = 2
  /\ BgmClips[1].duration = sceneTimings[2].endFrame
  /\ BgmClips[2].start = sceneTimings[3].startFrame

-----------------------------------------------------------------------------
(* C23 *)

\* the first entry of the manifest that the fileName of the g-th block
\* matches, 0 if none or if the block has no fileName; an empty fileName
\* counts as one when emptyCounts
EntryByFileName(g, emptyCounts) ==
  LET b == AllBlocks[g].block
      m == options.audioManifest
      hits == {i \in 1..Len(m) :
                 \/ Includes(m[i].audioSrc, b.fileName[1])
                 \/ m[i].fileName = b.fileName}
  IN  IF b.fileName = <<>> \/ (b.fileName = <<"">> /\ ~emptyCounts) \/ hits = {}
      THEN 0
      ELSE CHOOSE i \in hits : \A j \in hits : i <= j

\* the first entry whose audioKey is B.audioKey ?? (S.id + ":" + i), 0 if none
EntryByAudioKey(g) ==
  LET e == AllBlocks[g]
      m == options.audioManifest
      key == IF e.block.audioKey # <<>> THEN e.block.audioKey[1]
             ELSE e.sceneId \o ":" \o ToString(e.blockIndex)
      hits == {i \in 1..Len(m) : m[i].audioKey = key}
  IN  IF hits = {} THEN 0 ELSE CHOOSE i \in hits : \A j \in hits : i <= j

\* the entry the binding order gives the g-th block, 0 for unbound
EntryInOrder(g, emptyCounts) ==
  IF EntryByFileName(g, emptyCounts) # 0 THEN EntryByFileName(g, emptyCounts)
  ELSE EntryByAudioKey(g)

\* the audio asset of the g-th block is that of a block bound to entry i
\* of the manifest (i = 0: to none)
BoundTo(g, i) ==
  LET m == options.audioManifest
      fps == script.video.fps
  IN  assets.audio["audio_" \o ZeroPad(g, 3)] =
        IF i # 0 /\ m[i].durationInSeconds > 0
        THEN [src |-> m[i].audioSrc,
              durationFrames |-> (m[i].durationInSeconds * fps + 99) \div 100]
        ELSE [src |-> "audio/" \o ZeroPad(g, 3) \o ".wav", durationFrames |-> 2 * fps]

\* C23 as stated: a block whose fileName is set binds to the first entry
\* whose audioSrc contains it or whose fileName equals it; otherwise to the
\* first entry whose audioKey equals B.audioKey ?? (S.id + ":" + i);
\* otherwise it is unbound.  No other entry is ever chosen.
C23_BindsByFileNameThenAudioKey ==
  \A g \in 1..Processed : BoundTo(g, EntryInOrder(g, TRUE))

\* C23 amended: the same binding order, a fileName counting as set only
\* when it is not the empty string.
C23_BindsByNonEmptyFileNameThenAudioKey ==
  \A g \in 1..Processed : BoundTo(g, EntryInOrder(g, FALSE))

\* a block with a fileName and an audioKey has been bound by its fileName to
\* an entry behind another entry that carries its audioKey, and a block
\* with an empty fileName has been bound by its audioKey to an entry that
\* is not the first of the manifest
C23_FileNameWonOverAudioKeyReturned ==
  /\ Returned
  /\ Processed = 2
  /\ AllBlocks[2].block.fileName = <<"">>
  /\ EntryByAudioKey(2) > 1
  /\ assets.audio["audio_002"].src
       = options.audioManifest[EntryByAudioKey(2)].audioSrc
  /\ AllBlocks[1].block.fileName = <<"f.wav">>
  /\ EntryByFileName(1, FALSE) > EntryByAudioKey(1)
  /\ EntryByAudioKey(1) > 0
  /\ assets.audio["audio_001"].src
       = options.audioManifest[EntryByFileName(1, FALSE)].audioSrc

-----------------------------------------------------------------------------
(* C24 *)

\* the segments of the clip have been generated
SegmentsGenerated == render # <<>> /\ render[1].pc = "frames" /\ render[1].shouldLoop

Segments == render[1].segments
ClipDuration == render[1].clip.duration
AudioDuration == render[1].audioDurationFrames[1]

\* ls' = ls ?? 0 and le' = le ?? D_a
LoopStartGiven ==
  IF render[1].clip.loopStartFrames = <<>> THEN 0 ELSE render[1].clip.loopStartFrames[1]
LoopEndGiven ==
  IF render[1].clip.loopEndFrames = <<>> THEN AudioDuration
  ELSE render[1].clip.loopEndFrames[1]

InvalidLoopWindow ==
  \/ LoopEndGiven <= LoopStartGiven
  \/ LoopStartGiven < 0
  \/ LoopEndGiven > AudioDuration

\* the length of segment k without its crossfade extension: up to the
\* offset of the next segment, or to the end of the clip
UnextendedLength(k) ==
  IF k < Len(Segments) THEN Segments[k + 1].clipOffset - Segments[k].clipOffset
  ELSE ClipDuration - Segments[k].clipOffset

\* C24: when the loop window given to the generator is invalid (le' <= ls',
\* ls' < 0 or le' > D_a), it falls back to the full audio [0, D_a): every
\* segment after the first starts at audio frame 0 and has un-extended
\* length D_a (the last one what remains of the clip), and the clip still
\* loops: more than one segment whenever D_c > D_a.
C24_InvalidWindowFallsBackToFullAudio ==
  SegmentsGenerated /\ InvalidLoopWindow =>
    /\ \A k \in 2..Len(Segments) :
         /\ Segments[k].audioStartFrame = 0
         /\ IF k < Len(Segments) THEN UnextendedLength(k) = AudioDuration
            ELSE UnextendedLength(k) <= AudioDuration
    /\ ClipDuration > AudioDuration => Len(Segments) > 1

\* an empty window [2, 1) of an asset of 3 frames has been given for a
\* clip of 6 frames: the segments after the first play from audio frame 2,
\* one frame each
C24_EmptyWindowLoopsFromItsStart ==
  /\ SegmentsGenerated
  /\ ClipDuration = 6 /\ AudioDuration = 3
  /\ LoopStartGiven = 2 /\ LoopEndGiven = 1
  /\ Len(Segments) = 4
  /\ \A k \in 2..4 : Segments[k].audioStartFrame = 2 /\ UnextendedLength(k) = 1

-----------------------------------------------------------------------------
(* C25 *)

\* the end of the window the walk uses: D_a for an invalid window
LoopEndUsed == IF InvalidLoopWindow THEN AudioDuration ELSE LoopEndGiven

\* L, the length of the window the walk uses
WindowLength == LoopEndUsed - LoopStartGiven

\* x' = min(x ?? 0, floor(L / 2))
CrossfadeUsed ==
  LET x == IF render[1].clip.loopCrossfadeFrames = <<>> THEN 0
           ELSE render[1].clip.loopCrossfadeFrames[1]
      half == WindowLength \div 2
  IN  IF x < half THEN x ELSE half

RECURSIVE SumOfUnextended(_)
SumOfUnextended(k) == IF k = 0 THEN 0 ELSE SumOfUnextended(k - 1) + UnextendedLength(k)

-----------------------------------------------------------------------------
(* C26 *)

\* the clip rendered has a ducking object that disables ducking
DuckingDisabled ==
  render[1].clip.ducking # <<>> /\ ~render[1].clip.ducking[1].enabled

\* the frame rendered last lies inside a ducking interval
InsideDuckInterval == ~Outside(GlobalFrame(render[1].frame[1]))

\* g, the gain of the frame rendered last before the modifiers: that of
\* calculateDuckedGain if it was called, else idleGain
EnvelopeGain == IF render[1].duckedGain = <<>> THEN IdleGain ELSE GainNow

BaseGain == render[1].params[1].baseGain

\* C26: for a BGM clip whose ducking is disabled, talkGain equals baseGain
\* and, at every frame inside a ducking interval, the gain before the
\* modifiers equals talkGain = baseGain, not the idle-boosted gain.
C26_DisabledDuckingPlaysBaseGainWhileTalking ==
  FrameRendered /\ DuckingDisabled =>
    /\ TalkGain = BaseGain
    /\ InsideDuckInterval => EnvelopeGain = TalkGain

\* a frame inside a ducking interval, away from the fades, has been
\* rendered for a clip with ducking disabled: its volume is the idle gain,
\* which is above the base gain
C26_IdleGainRenderedWhileTalking ==
  /\ FrameRendered
  /\ DuckingDisabled
  /\ InsideDuckInterval
  /\ render[1].frame = <<2>>
  /\ render[1].clip.transitionInFrames = <<>>
  /\ TalkGain = BaseGain
  /\ Less(BaseGain, IdleGain)
  /\ render[1].volume = <<IdleGain>>

-----------------------------------------------------------------------------
(* C27 *)

\* the BGM assets of the Timeline returned
BgmAssets == timeline[1].assets.bgm[1]

\* the gain from volumeDb, else volume, else -12 dB
VolumeGain ==
  LET clip == render[1].clip
  IN  IF clip.volumeDb # <<>> THEN dbToGain(clamp(clip.volumeDb[1], -60, 6))
      ELSE IF clip.volume # <<>> THEN clampGain(clip.volume[1], Whole(0), Whole(1))
      ELSE dbToGain(-12)

\* the asset of the clip rendered carries loudnessGainDb, and the gains of
\* the clip have been computed
LoudnessCarried ==
  /\ render # <<>>
  /\ "loudnessGainDb" \in DOMAIN render[1]
  /\ render[1].loudnessGainDb # <<>>
  /\ render[1].params # <<>>

\* C27: when the loudness-gain map passed to compile has an entry for an
\* asset, that value is carried as loudnessGainDb on assets.bgm[id]; and
\* for every clip of an asset carrying loudnessGainDb the envelope's
\* baseGain is the volume-derived gain times dbToGain(loudnessGainDb), so
\* that idleGain scales by the same factor.
C27_LoudnessGainCarriedAndApplied ==
  /\ Returned /\ "bgmLoudnessGainDb" \in DOMAIN options /\ timeline[1].assets.bgm # <<>> =>
       \A id \in DOMAIN options.bgmLoudnessGainDb \cap DOMAIN BgmAssets :
         /\ "loudnessGainDb" \in DOMAIN BgmAssets[id]
         /\ BgmAssets[id].loudnessGainDb = <<options.bgmLoudnessGainDb[id]>>
  /\ LoudnessCarried =>
       LET factor == dbToGain(render[1].loudnessGainDb[1])
       IN  /\ BaseGain = Mul(VolumeGain, factor)
           /\ IdleGain = Mul(Mul(VolumeGain, factor),
                             dbToGain(IF render[1].clip.idleBoostDb = <<>> THEN 3
                                      ELSE render[1].clip.idleBoostDb[1]))

\* a Timeline with two BGM assets has been returned by a compile that was
\* given a loudness gain for each: neither asset carries loudnessGainDb
C27_LoudnessMapDroppedReturned ==
  /\ Returned
  /\ "bgmLoudnessGainDb" \in DOMAIN options
  /\ Cardinality(DOMAIN options.bgmLoudnessGainDb) = 2
  /\ DOMAIN BgmAssets = DOMAIN options.bgmLoudnessGainDb
  /\ \A id \in DOMAIN BgmAssets : DOMAIN BgmAssets[id] = {"src", "durationFrames"}

-----------------------------------------------------------------------------
(* C28 *)

\* C28: every BGM clip emitted by compile lies inside the timeline:
\* clip.start + clip.duration <= meta.totalFrames, for every scene
\* sequence, a source change before a scene shorter than the transition
\* included.
C28_BgmClipsLieInsideTheTimeline ==
  Returned =>
    \A k \in 1..Len(BgmClips) :
      BgmClips[k].start + BgmClips[k].duration <= timeline[1].meta.totalFrames

\* a Timeline of two scenes of 23 frames has been returned, the second
\* changing the source in the default transition time of 30 frames: the
\* first clip runs 7 frames past the end of the timeline
C28_CrossfadePastTheEndReturned ==
  /\ Returned
  /\ Len(script.scenes) = 2
  /\ SrcChangesAt(2) /\ TransitionOf(2) = 30
  /\ timeline[1].meta.totalFrames = 46
  /\ Len(BgmClips) = 2
  /\ BgmClips[1].start = 0 /\ BgmClips[1].duration = 53
  /\ BgmClips[2].start = 23 /\ BgmClips[2].duration = 23

-----------------------------------------------------------------------------
(* C29 *)

\* C29: every loop segment produced by generateLoopSegments lies inside
\* its clip: clipOffset + duration <= clipDuration for every segment, a
\* non-last segment whose crossfade extension is longer than what remains
\* of the clip after it included.
C29_SegmentsLieInsideTheClip ==
  SegmentsGenerated =>
    \A k \in 1..Len(Segments) :
      Segments[k].clipOffset + Segments[k].duration <= ClipDuration

\* a clip of 5 frames that loops an asset of 4 frames with a crossfade of 2
\* has its segments: the first, extended by the crossfade, spans [0, 6)
C29_ExtendedSegmentPastTheClipGenerated ==
  /\ SegmentsGenerated
  /\ ClipDuration = 5 /\ AudioDuration = 4
  /\ ~InvalidLoopWindow /\ WindowLength = 4
  /\ CrossfadeUsed = 2
  /\ Len(Segments) = 2
  /\ Segments[1].clipOffset = 0 /\ Segments[1].duration = 6
  /\ Segments[2].clipOffset = 4 /\ Segments[2].duration = 1

-----------------------------------------------------------------------------
(* C30 *)

\* global frame f lies in a raw talking interval
Talking(f) ==
  \E i \in 1..Len(render[1].rawTalkingIntervals) :
    /\ render[1].rawTalkingIntervals[i].start <= f
    /\ f < render[1].rawTalkingIntervals[i].end

\* every talking frame below maxEndFrame lies in a stabilized interval
TalkingFramesStayDucked ==
  \A f \in 0..(MaxEndFrame - 1) : Talking(f) => ~Outside(f)

\* C30: stabilization never un-ducks a talking frame: every frame
\* f < maxEndFrame that lies in a raw talking interval lies in an interval
\* of the result of stabilizeIntervals, so that the envelope evaluates to
\* talkGain, before the modifiers, at every talking frame of the clip.
C30_TalkingFramesPlayTalkGain ==
  /\ Stabilized => TalkingFramesStayDucked
  /\ FrameRendered /\ Talking(GlobalFrame(render[1].frame[1])) =>
       EnvelopeGain = TalkGain

\* a frame of the raw talking interval [2, 6) has been rendered for a clip
\* with ducking disabled: the frame lies in a stabilized interval, and the
\* gain before the modifiers is the idle gain, not the talk gain
C30_TalkingFrameAtIdleGainRendered ==
  /\ FrameRendered
  /\ render[1].rawTalkingIntervals = <<[start |-> 2, end |-> 6]>>
  /\ render[1].frame = <<3>>
  /\ render[1].clip.start = 0
  /\ Talking(3)
  /\ ~Outside(3)
  /\ DuckingDisabled
  /\ EnvelopeGain = IdleGain
  /\ Less(TalkGain, EnvelopeGain)

====
